---- MODULE Spec2Model ----
(***************************************************************************)
(* State-machine model of the job scheduler of run_backend.run_job and of  *)
(* the selection round trip of icon_generator_tab: the CancelToken, the    *)
(* validation of the enabled providers, the parallel (automatic) loop with *)
(* its worker pool, and the sequential interactive loop with prefetching.  *)
(***************************************************************************)
EXTENDS Integers, Sequences, FiniteSets, TLC

\* ---------------------------------------------------------------- bounds
MaxSteps == 2       \* bound on auto_centering.search_steps
MaxPixels == 9      \* bound on the number of pixels of an alpha bitmap
MaxSide == 7        \* bound on the width and the height of an image, in pixels
MaxHints == 7       \* bound on the platform hints of a platform
MaxSegs == 3        \* bound on the pieces a generated title is put together from
MaxGrids == 2       \* bound on the grids SteamGridDB lists for a game
MaxTitleLen == 2    \* bound on the characters of a title
MaxTasks == 2
MaxWorkers == 2

\* ------------------------------------------------------------- constants
NoImg == <<>>
\* The answers of the selection dialog besides an index: cancel all, and
\* None (skip this title), which the model writes as -2.
CANCEL_ALL == -1
SkipTitle == -2

Providers == {"steamgriddb", "libretro", "igdb"}

\* Providers whose credentials run_job validates before it builds the tasks.
NeedsKey == {"steamgriddb", "igdb"}

\* provider_order as run_job builds it from the enabled entries of the
\* configured list: every order without repetition of at most two providers.
ProviderOrders ==
    {<<>>} \cup {<<p>> : p \in Providers}
           \cup {<<p, q>> : <<p, q>> \in {pq \in Providers \X Providers : pq[1] # pq[2]}}

\* The orders the interactive runs are checked with (the two providers
\* the GUI's source setting offers).
InteractiveOrders == {o \in ProviderOrders : \A i \in 1..Len(o) : o[i] # "igdb"}

\* Which of the optional downloads a run asks for (scrape_logos,
\* download_heroes, download_screenshots).
ExtraSets == {{}, {"logos"}, {"logos", "heroes", "screenshots"}}

\* Bound on the images one call of fetch_multiple_art_from_steamgriddb
\* returns (max_results, 5 in the source).
MaxResults == 1

VARIABLES
    cfg,        \* the run's inputs: provider_order, credentials, task count, extras
    cancel,     \* CancelToken._evt
    pcMain,     \* position of run_job
    result,     \* what run_job returned: <<ok, message kind>>
    total,      \* len(tasks)
    done,       \* run_job: done
    errors,     \* run_job: errors
    progress,   \* the done values handed to the progress callback, in order
    yielded,    \* parallel mode: futures as_completed has handed to the loop
    fut,        \* state of each task's work_item call (parallel mode: of its future)
    tpc,        \* position of work_item for each task
    provIdx,    \* work_item: index into provider_order
    img,        \* work_item: img_bytes
    written,    \* output files written: <<task, kind, image>>
    review,     \* diagnostic records written to the review directory
    calls,      \* provider calls each task has made, in order: <<provider, found>>
    sinceCheck, \* provider calls each task made since its last cancel check
    startedAfterCancel, \* tasks whose work_item was entered with the token already set
    inFlightAtCancel,   \* tasks inside work_item when the token was first set
    iIdx,       \* interactive loop: i, as a task number
    prefetch_thread, \* the task whose prefetch thread the variable refers to, 0 for None
    prefetch_cache,  \* the tasks whose options the prefetch cache holds
    impl,       \* fetch_all_artwork_options_impl per task and caller: its position
    pth,        \* the provider threads of each fetch_all_artwork_options_impl call
    opts,       \* the options list of each fetch_all_artwork_options_impl call
    optsRef,    \* work_item: which list artwork_options refers to
    selPc,      \* position of the selection round trip
    dialogFor,  \* _dialog_title: the task the pending request is for
    dialogQueue, \* _dialog_result: the queue of the pending request
    offered,    \* per task, the options its dialog was built from
    chosen,     \* the answers work_item holds (selected_index): <<task, answer>>
    btn_cancel, \* IconGeneratorTab.btn_cancel is enabled
    cancelAll,  \* work_item has called cancel.cancel() on a CANCEL_ALL answer
    cancelledAgain, \* cancel() has been called on a token already cancelled
    lateRequest, \* a provider request begun after that call
    queried,    \* per task: the callers whose provider threads made requests for it
    \* -- the task list of run_job, followed over repeated runs
    titles,     \* the titles the dataset lists for the platform
    outfiles,   \* the out_path icons that exist in the output directory
    tasks,      \* run_job: tasks (the titles queued)
    bpc,        \* position of the run: "idle", "build", "work"
    pos,        \* the next task of the list to be processed
    runOk,      \* every task processed so far in this run succeeded
    prevOk,     \* there was a run before this one and all its tasks succeeded
    filesAtBuild, \* outfiles as they were when the list was built
    taskCalls,  \* the titles provider calls were made for in this run
    \* -- the artwork cache, shared by the workers' adapter calls
    cache_dir,  \* per URL: the entry is "absent", "partial" or "complete"
    apc,        \* per worker: position inside the adapter call
    aprov,      \* per worker: the adapter called
    got,        \* per worker: the bytes the call has in hand
    net,        \* per worker: the call has made a network request for the image
    late,       \* per worker: the call began after the URL's image was returned
    returned,   \* the URLs whose image some call has returned
    \* -- one call of pick_best_grid
    grids,          \* the argument: a list of grid records
    allow_animated,
    square_only,
    best,           \* the value returned: <<>> for None, else <<grid>>
    ppc,            \* "call" before the call, "done" after it
    \* -- one call of a pure function of the backend
    input,          \* the arguments
    output,         \* the value returned
    fpc             \* "idle", "call" before the call, "done" after it

mainv == <<pcMain, result, total, done, errors, progress>>
taskv == <<fut, tpc, provIdx, img>>
filev == <<written, review>>
latev == <<cancelAll, cancelledAgain, lateRequest, queried>>
histv == <<calls, sinceCheck, startedAfterCancel, inFlightAtCancel, latev>>
prefv == <<iIdx, prefetch_thread, prefetch_cache>>
fetchv == <<impl, pth, opts, optsRef>>
selv == <<selPc, dialogFor, dialogQueue, offered, chosen, btn_cancel>>

buildv == <<titles, outfiles, tasks, bpc, pos, runOk, prevOk, filesAtBuild, taskCalls>>
cachev == <<cache_dir, apc, aprov, got, net, late, returned>>
pickv == <<grids, allow_animated, square_only, best, ppc>>
funv == <<input, output, fpc>>
auxv == <<buildv, cachev, pickv, funv>>
runv == <<cfg, cancel, mainv, yielded, taskv, filev, histv, prefv, fetchv, selv>>
vars == <<runv, auxv>>

Tasks == 1..MaxTasks
Callers == {"prefetch", "direct"}

\* ------------------------------------------------------------ CancelToken
\* CancelToken.cancel: Event.set()
CancelToken_cancel_toggle(evt) == ~evt
CancelToken_cancel(evt) == TRUE

\* CancelToken.is_cancelled: Event.is_set()
is_cancelled == cancel

\* ------------------------------------------------------------- the inputs
\* run_job's inputs. keys: the providers whose credentials are present in the
\* environment; ntasks: the titles whose output icon does not exist yet;
\* fallback: use_platform_icon_fallback is off, or on with an icon file for
\* the platform found or missing; title: whether the title image of a game
\* folder can be written (it cannot when title.<ext> is there as a read-only
\* file or a directory).
JobConfigs(interactive) ==
    IF interactive
    THEN [order : InteractiveOrders, keys : {{"steamgriddb"}}, ntasks : 0..MaxTasks,
          extras : {{"logos", "heroes", "screenshots"}}, fallback : {"off"},
          interactive : {TRUE}, title : {"writable"}]
         \cup
         [order : {<<"libretro">>}, keys : {{"steamgriddb"}}, ntasks : 0..MaxTasks,
          extras : {{"logos", "heroes", "screenshots"}}, fallback : {"found", "missing"},
          interactive : {TRUE}, title : {"writable"}]
    ELSE [order : ProviderOrders, keys : SUBSET NeedsKey, ntasks : 0..MaxTasks,
          extras : ExtraSets, fallback : {"off"}, interactive : {FALSE},
          title : {"writable"}]
         \cup
         [order : ProviderOrders, keys : SUBSET NeedsKey, ntasks : 0..MaxTasks,
          extras : {{}}, fallback : {"found", "missing"}, interactive : {FALSE},
          title : {"writable"}]
         \cup
         [order : {<<"libretro">>}, keys : {{}}, ntasks : 0..MaxTasks,
          extras : {{}}, fallback : {"off"}, interactive : {FALSE},
          title : {"unwritable"}]

provider_order == cfg.order
api_key == "steamgriddb" \in cfg.keys
igdb_credentials == "igdb" \in cfg.keys
interactive_mode == cfg.interactive
scrape_logos == "logos" \in cfg.extras
download_heroes == "heroes" \in cfg.extras
download_screenshots == "screenshots" \in cfg.extras
skip_scraping == FALSE
use_fallback == cfg.fallback # "off"
title_path_writable == cfg.title = "writable"

\* find_fallback_icon: the bytes of the platform's icon file, or None.
FallbackIcon == <<0, "fallback_platform_icon", 0>>
find_fallback_icon == IF cfg.fallback = "found" THEN FallbackIcon ELSE NoImg

Queued == 1..total

InitCommon ==
    /\ cancel = FALSE
    /\ pcMain = "validate"
    /\ result = <<>>
    /\ total = 0
    /\ done = 0
    /\ errors = 0
    /\ progress = <<>>
    /\ yielded = {}
    /\ fut = [t \in Tasks |-> "none"]
    /\ tpc = [t \in Tasks |-> "idle"]
    /\ provIdx = [t \in Tasks |-> 1]
    /\ img = [t \in Tasks |-> NoImg]
    /\ written = {}
    /\ review = {}
    /\ calls = [t \in Tasks |-> <<>>]
    /\ sinceCheck = [t \in Tasks |-> 0]
    /\ startedAfterCancel = {}
    /\ inFlightAtCancel = {}
    /\ cancelAll = FALSE
    /\ cancelledAgain = FALSE
    /\ lateRequest = FALSE
    /\ queried = [t \in Tasks |-> {}]
    /\ iIdx = 1
    /\ prefetch_thread = 0
    /\ prefetch_cache = {}
    /\ impl = [t \in Tasks |-> [c \in Callers |-> "none"]]
    /\ pth = [t \in Tasks |-> [c \in Callers |-> [p \in Providers |-> "none"]]]
    /\ opts = [t \in Tasks |-> [c \in Callers |-> <<>>]]
    /\ optsRef = [t \in Tasks |-> "none"]
    /\ selPc = "idle"
    /\ dialogFor = 0
    /\ dialogQueue = <<>>
    /\ offered = [t \in Tasks |-> <<>>]
    /\ chosen = {}
    /\ btn_cancel = TRUE

\* The task list is not followed while a single run is.
BuildIdle ==
    /\ titles = <<>>
    /\ outfiles = {}
    /\ tasks = <<>>
    /\ bpc = "idle"
    /\ pos = 1
    /\ runOk = TRUE
    /\ prevOk = FALSE
    /\ filesAtBuild = {}
    /\ taskCalls = {}

CacheWorkers == 1..MaxWorkers

\* No adapter call is followed while a single run is.
CacheIdle ==
    /\ cache_dir = [u \in Providers |-> "absent"]
    /\ apc = [w \in CacheWorkers |-> "idle"]
    /\ aprov = [w \in CacheWorkers |-> "none"]
    /\ got = [w \in CacheWorkers |-> "none"]
    /\ net = [w \in CacheWorkers |-> FALSE]
    /\ late = [w \in CacheWorkers |-> FALSE]
    /\ returned = {}

\* pick_best_grid is not followed while a single run is.
PickIdle ==
    /\ grids = <<>>
    /\ allow_animated = FALSE
    /\ square_only = FALSE
    /\ best = <<>>
    /\ ppc = "idle"

\* No single function call is followed while a run is.
FunIdle ==
    /\ input = <<>>
    /\ output = <<>>
    /\ fpc = "idle"

AuxIdle == BuildIdle /\ CacheIdle /\ PickIdle /\ FunIdle

Init ==
    /\ cfg \in JobConfigs(FALSE)
    /\ InitCommon
    /\ AuxIdle

InitInteractive ==
    /\ cfg \in JobConfigs(TRUE)
    /\ InitCommon
    /\ AuxIdle

\* ---------------------------------------------------------------- the GUI
\* IconGeneratorTab.cancel_job: the Cancel button, enabled from the start of
\* a job until it is clicked or the job ends (the modal selection dialog
\* keeps it from being clicked while it shows).
cancel_job ==
    /\ btn_cancel
    /\ pcMain # "returned"
    /\ selPc # "showing"
    /\ btn_cancel' = FALSE
    /\ cancel' = CancelToken_cancel(cancel)
    /\ inFlightAtCancel' = IF cancel THEN inFlightAtCancel
                           ELSE {t \in Tasks : fut[t] = "running"}
    /\ cancelledAgain' = (cancelledAgain \/ cancel)
    /\ UNCHANGED <<auxv, cfg, mainv, yielded, taskv, filev, calls, sinceCheck,
                   startedAfterCancel, cancelAll, lateRequest, queried, prefv, fetchv,
                   selPc, dialogFor, dialogQueue, offered, chosen>>

\* ------------------------------------------------------- run_job: prologue
\* The provider an enabled-but-uncredentialed order fails on, or "" when
\* every enabled provider that needs credentials has them.
MissingCredentials(order, keys) ==
    IF \E i \in 1..Len(order) : order[i] = "steamgriddb" /\ "steamgriddb" \notin keys
    THEN "steamgriddb"
    ELSE IF \E i \in 1..Len(order) : order[i] = "igdb" /\ "igdb" \notin keys
    THEN "igdb"
    ELSE ""

\* _emit_progress with a progress callback: the callback gets (done, total).
_emit_progress_stale(seq, d) == Append(seq, d - 1)
_emit_progress(seq, d) == Append(seq, d)

\* run_job up to the task list: provider validation, credential validation,
\* the cancel checks before the dataset and per platform, the task list.
run_job_prologue ==
    /\ pcMain = "validate"
    /\ IF provider_order = <<>>
       THEN /\ result' = <<FALSE, "no_sources">>
            /\ pcMain' = "returned"
            /\ total' = total
            /\ progress' = progress
       ELSE IF MissingCredentials(provider_order, cfg.keys) # ""
       THEN /\ result' = <<FALSE, "missing_key">>
            /\ pcMain' = "returned"
            /\ total' = total
            /\ progress' = progress
       ELSE IF is_cancelled
       THEN /\ result' = <<FALSE, "cancelled_early">>
            /\ pcMain' = "returned"
            /\ total' = total
            /\ progress' = progress
       ELSE IF cfg.ntasks = 0
       THEN /\ result' = <<TRUE, "nothing_to_do">>
            /\ pcMain' = "returned"
            /\ total' = 0
            /\ progress' = progress
       ELSE /\ result' = result
            /\ total' = cfg.ntasks
            /\ progress' = _emit_progress(progress, 0)
            /\ pcMain' = IF interactive_mode THEN "iloop" ELSE "submit"
    /\ UNCHANGED <<auxv, cfg, cancel, done, errors, yielded, taskv, filev, histv, prefv,
                   fetchv, selv>>

\* ------------------------------------------------------ provider adapters
\* What one call of each adapter can come to: "found" (an image), "none",
\* "error" (a failure the adapter itself catches and logs, returning None),
\* "error_quiet" (a failure it swallows without a log line) and "raise" (an
\* exception that leaves the adapter).
\* steamgriddb: choose_best_game_id and pick_best_grid run outside its try
\* blocks, so a malformed game record raises out of it.
fetch_art_from_steamgriddb_square == {"found", "none", "error", "raise"}

\* libretro: the direct tries swallow their exceptions (continue); the index
\* fetch and the matched download log theirs.
fetch_art_from_libretro == {"found", "none", "error", "error_quiet"}

\* igdb: get_igdb_access_token returns whatever "access_token" holds, and
\* token[:20] is evaluated before the try block: a token that is not a
\* string raises TypeError out of the adapter.
fetch_art_from_igdb == {"found", "none", "error", "raise"}

ProviderOutcomes(p) ==
    CASE p = "steamgriddb" -> fetch_art_from_steamgriddb_square
      [] p = "libretro" -> fetch_art_from_libretro
      [] p = "igdb" -> fetch_art_from_igdb

\* The automatic loop of work_item wraps only the steamgriddb call in
\* try/except; the other adapters are called bare.
work_item_catches(p) == p = "steamgriddb"

\* `for prov in provider_order`: the provider of the i-th iteration.
provider_at_reversed(i) == provider_order[Len(provider_order) + 1 - i]
provider_at(i) == provider_order[i]

\* ------------------------------------------------------------- work_item
\* The check work_item makes on entry: cancelled, return False.
EntryCheckStops == is_cancelled

\* The check the automatic loop makes before each provider.
LoopCheckStops == is_cancelled

Return(t, value) ==
    /\ fut' = [fut EXCEPT ![t] = value]
    /\ tpc' = [tpc EXCEPT ![t] = "ret"]

\* The stage after the title image is saved.
AfterLogo ==
    IF download_heroes /\ api_key THEN "hero"
    ELSE IF download_screenshots THEN "shots"
    ELSE "ret"

AfterHero == IF download_screenshots THEN "shots" ELSE "ret"

LowestPending(t) == \A u \in Queued : fut[u] = "pending" => t <= u

Running == {t \in Queued : fut[t] = "running"}

\* Who calls work_item(t): in parallel mode a pool worker, which takes the
\* oldest pending future while fewer than max_workers run; in interactive
\* mode the loop of run_job, for the task it is at.
Called(t) ==
    IF interactive_mode
    THEN pcMain = "icall" /\ t = iIdx /\ fut[t] = "none"
    ELSE /\ pcMain \in {"collect", "exit"}
         /\ fut[t] = "pending"
         /\ LowestPending(t)
         /\ Cardinality(Running) < MaxWorkers

\* work_item, from its entry to the branch on the mode.
work_item_enter(t) ==
    /\ t \in Queued
    /\ Called(t)
    /\ startedAfterCancel' = IF cancel THEN startedAfterCancel \cup {t}
                             ELSE startedAfterCancel
    /\ IF EntryCheckStops
       THEN Return(t, "false")
       ELSE /\ fut' = [fut EXCEPT ![t] = "running"]
            /\ tpc' = [tpc EXCEPT ![t] = IF interactive_mode THEN "fetch" ELSE "loop"]
    /\ sinceCheck' = [sinceCheck EXCEPT ![t] = 0]
    /\ UNCHANGED <<auxv, cfg, cancel, mainv, yielded, provIdx, img, filev, calls,
                   inFlightAtCancel, latev, prefv, fetchv, selv>>

\* No artwork: with use_fallback and a fallback icon, go on to compose with
\* it; else write the no-art record and return False.
NoArt(t) ==
    IF use_fallback /\ find_fallback_icon # NoImg
    THEN /\ img' = [img EXCEPT ![t] = find_fallback_icon]
         /\ tpc' = [tpc EXCEPT ![t] = "compose"]
         /\ UNCHANGED <<fut, review>>
    ELSE /\ review' = review \cup {<<t, "no_art">>}
         /\ Return(t, "false")
         /\ UNCHANGED img

\* Automatic mode: the head of `for prov in provider_order`, and, when the
\* loop is exhausted with img_bytes None, the no-art record and return False.
work_item_loop(t) ==
    /\ tpc[t] = "loop"
    /\ IF provIdx[t] > Len(provider_order)
       THEN /\ NoArt(t)
            /\ UNCHANGED sinceCheck
       ELSE IF LoopCheckStops
       THEN /\ Return(t, "false")
            /\ UNCHANGED <<review, sinceCheck, img>>
       ELSE /\ tpc' = [tpc EXCEPT ![t] = "call"]
            /\ sinceCheck' = [sinceCheck EXCEPT ![t] = 0]
            /\ UNCHANGED <<fut, review, img>>
    /\ UNCHANGED <<auxv, cfg, cancel, mainv, yielded, provIdx, written, calls,
                   startedAfterCancel, inFlightAtCancel, latev,
                   prefv, fetchv, selv>>

\* Automatic mode: the call of the provider the loop is at and what the
\* loop does with its outcome: break on an image, go on to the next provider
\* on None, and on an exception go on (steamgriddb) or leave work_item.
work_item_call(t) ==
    /\ tpc[t] = "call"
    /\ LET p == provider_at(provIdx[t]) IN
       \E o \in ProviderOutcomes(p) :
          /\ calls' = [calls EXCEPT ![t] = Append(@, <<p, o = "found">>)]
          /\ sinceCheck' = [sinceCheck EXCEPT ![t] = @ + 1]
          /\ IF o = "found"
             THEN /\ img' = [img EXCEPT ![t] = <<t, p, 1>>]
                  /\ tpc' = [tpc EXCEPT ![t] = "compose"]
                  /\ UNCHANGED <<fut, provIdx>>
             ELSE IF o = "raise" /\ ~work_item_catches(p)
             THEN /\ Return(t, "raised")
                  /\ UNCHANGED <<img, provIdx>>
             ELSE /\ provIdx' = [provIdx EXCEPT ![t] = @ + 1]
                  /\ tpc' = [tpc EXCEPT ![t] = "loop"]
                  /\ UNCHANGED <<fut, img>>
    /\ UNCHANGED <<auxv, cfg, cancel, mainv, yielded, filev, startedAfterCancel,
                   inFlightAtCancel, latev, prefv, fetchv, selv>>

\* What the handler of the compose try block writes to the review directory.
ComposeErrorNoRecord(t) == {}
ComposeErrorRecord(t) == {<<t, "compose_error">>}

\* Image.open, compose_with_border and the save of the icon; an exception
\* writes the compose-error record and returns False.
work_item_compose(t) ==
    /\ tpc[t] = "compose"
    /\ \E ok \in BOOLEAN :
          IF ok
          THEN /\ written' = written \cup {<<t, "icon", img[t]>>}
               /\ tpc' = [tpc EXCEPT ![t] = "logo"]
               /\ UNCHANGED <<fut, review>>
          ELSE /\ review' = review \cup ComposeErrorRecord(t)
               /\ Return(t, "false")
               /\ UNCHANGED written
    /\ UNCHANGED <<auxv, cfg, cancel, mainv, yielded, provIdx, img, histv, prefv, fetchv, selv>>

\* The title image: the logo fetched from SteamGridDB when scrape_logos and
\* the key are set, else (or when none is found) the boxart duplicate
\* (logo_fallback_to_boxart defaults to True, so a title image is written
\* either way). The save of the duplicate is in the compose try block only:
\* when it raises, the handler writes the compose-error record and returns
\* False, the icon being saved already.
work_item_logo(t) ==
    /\ tpc[t] = "logo"
    /\ IF scrape_logos /\ api_key
       THEN /\ calls' = [calls EXCEPT ![t] = Append(@, <<"logos", FALSE>>)]
            /\ sinceCheck' = [sinceCheck EXCEPT ![t] = @ + 1]
       ELSE UNCHANGED <<calls, sinceCheck>>
    /\ IF title_path_writable
       THEN /\ written' = written \cup {<<t, "title", NoImg>>}
            /\ IF AfterLogo = "ret"
               THEN Return(t, "true")
               ELSE /\ tpc' = [tpc EXCEPT ![t] = AfterLogo]
                    /\ UNCHANGED fut
            /\ UNCHANGED review
       ELSE /\ review' = review \cup ComposeErrorRecord(t)
            /\ Return(t, "false")
            /\ UNCHANGED written
    /\ UNCHANGED <<auxv, cfg, cancel, mainv, yielded, provIdx, img,
                   startedAfterCancel, inFlightAtCancel, latev,
                   prefv, fetchv, selv>>

\* download_heroes: fetch_heroes_from_steamgriddb (the hero files it may
\* save go to the task's own folder and are not tracked).
work_item_hero(t) ==
    /\ tpc[t] = "hero"
    /\ calls' = [calls EXCEPT ![t] = Append(@, <<"heroes", FALSE>>)]
    /\ sinceCheck' = [sinceCheck EXCEPT ![t] = @ + 1]
    /\ IF AfterHero = "ret"
       THEN Return(t, "true")
       ELSE /\ tpc' = [tpc EXCEPT ![t] = AfterHero]
            /\ UNCHANGED fut
    /\ UNCHANGED <<auxv, cfg, cancel, mainv, yielded, provIdx, img, filev,
                   startedAfterCancel, inFlightAtCancel, latev,
                   prefv, fetchv, selv>>

\* download_screenshots: IGDB first when its credentials are set, then the
\* Libretro snapshots when IGDB gave nothing; then return True.
work_item_shots(t) ==
    /\ tpc[t] = "shots"
    /\ \E gotIgdb \in IF igdb_credentials THEN BOOLEAN ELSE {FALSE} :
          LET made == (IF igdb_credentials THEN <<<<"shots_igdb", FALSE>>>> ELSE <<>>)
                      \o (IF gotIgdb THEN <<>> ELSE <<<<"shots_libretro", FALSE>>>>)
          IN /\ calls' = [calls EXCEPT ![t] = @ \o made]
             /\ sinceCheck' = [sinceCheck EXCEPT ![t] = @ + Len(made)]
    /\ Return(t, "true")
    /\ UNCHANGED <<auxv, cfg, cancel, mainv, yielded, provIdx, img, filev,
                   startedAfterCancel, inFlightAtCancel, latev,
                   prefv, fetchv, selv>>

\* ------------------------------------------------- run_job: parallel loop
\* ThreadPoolExecutor(max_workers) and one submit per task.
run_job_submit ==
    /\ pcMain = "submit"
    /\ fut' = [t \in Tasks |-> IF t \in Queued THEN "pending" ELSE fut[t]]
    /\ pcMain' = "collect"
    /\ UNCHANGED <<auxv, cfg, cancel, result, total, done, errors, progress, yielded, tpc, provIdx,
                   img, filev, histv, prefv, fetchv, selv>>

Finished(t) == fut[t] \in {"true", "false", "raised", "cancelled"}

\* Where the loop goes after a future's result: fut.result() is called in
\* a try whose handler sets ok = False, so the loop ends only when
\* as_completed is exhausted.
AfterResultAbort(value, last) == IF last \/ value = "raised" THEN "exit" ELSE "collect"
AfterResult(value, last) == IF last THEN "exit" ELSE "collect"

\* One iteration of `for fut in as_completed(futures)`: on a set token,
\* cancel the pending futures and break; else count the future's result.
run_job_collect ==
    /\ pcMain = "collect"
    /\ \E t \in Queued \ yielded :
          /\ Finished(t)
          /\ IF is_cancelled
             THEN /\ fut' = [u \in Tasks |-> IF fut[u] = "pending" THEN "cancelled"
                                             ELSE fut[u]]
                  /\ pcMain' = "exit"
                  /\ UNCHANGED <<yielded, done, errors, progress>>
             ELSE /\ yielded' = yielded \cup {t}
                  /\ errors' = IF fut[t] = "true" THEN errors ELSE errors + 1
                  /\ done' = done + 1
                  /\ progress' = _emit_progress(progress, done')
                  /\ pcMain' = AfterResult(fut[t], yielded' = Queued)
                  /\ UNCHANGED fut
    /\ UNCHANGED <<auxv, cfg, cancel, result, total, tpc, provIdx, img, filev, histv,
                   prefv, fetchv, selv>>

\* The end of the `with` block joins the pool's workers (shutdown(wait=True)).
PoolNotJoined == TRUE
PoolJoined == \A t \in Queued : fut[t] \notin {"pending", "running"}

\* The exit of the `with` block (parallel mode) and run_job's return.
run_job_return ==
    /\ pcMain = "exit"
    /\ PoolJoined
    /\ result' = IF is_cancelled THEN <<FALSE, "cancelled">> ELSE <<TRUE, "finished">>
    /\ pcMain' = "returned"
    /\ UNCHANGED <<auxv, cfg, cancel, total, done, errors, progress, yielded, taskv, filev, histv,
                   prefv, fetchv, selv>>

\* ------------------------------------------ fetch_all_artwork_options_impl
InOrder(p) == \E i \in 1..Len(provider_order) : provider_order[i] = p

\* `for prov in provider_order: Thread(target=provider_funcs[prov]).start()`
Spawned == [p \in Providers |-> IF InOrder(p) THEN "start" ELSE "none"]

\* Nothing reads the list of a prefetch that came too late for its task, or
\* the lists of a task whose work_item has returned: the provider threads
\* still filling them are followed no further.
Unfollowed == [c \in Callers |-> [p \in Providers |-> "none"]]

\* How many images one provider thread can add: fetch_multiple_art_from_steamgriddb
\* returns up to max_results, the other adapters one.
MaxFor(p) == IF p = "steamgriddb" THEN MaxResults ELSE 1

NewOptions(t, p, n) == [i \in 1..n |-> <<t, p, i>>]

\* `with options_lock: options.append(...)`
options_prepend(list, new) == new \o list
options_append(list, new) == list \o new

\* work_item has handled a CANCEL_ALL answer: cancel.cancel() was called.
CancelAllHandled == cancelAll

\* fetch_from_<provider>: the check of the token at the thread's start.
provider_thread_check(t, c, p) ==
    /\ pth[t][c][p] = "start"
    /\ pth' = [pth EXCEPT ![t][c][p] = IF is_cancelled THEN "done" ELSE "search"]
    /\ UNCHANGED <<auxv, cfg, cancel, mainv, yielded, taskv, filev, histv, prefv, impl, opts,
                   optsRef, selv>>

\* The rest of fetch_from_<provider>: the adapter's requests (search, then
\* downloads) and the append of the images they returned; a failure is
\* caught in the thread and adds nothing.
provider_thread_fetch(t, c, p) ==
    /\ pth[t][c][p] = "search"
    /\ \E n \in 0..MaxFor(p) :
          opts' = [opts EXCEPT ![t][c] = options_append(@, NewOptions(t, p, n))]
    /\ pth' = [pth EXCEPT ![t][c][p] = "done"]
    /\ lateRequest' = (lateRequest \/ CancelAllHandled)
    /\ queried' = [queried EXCEPT ![t] = @ \cup {c}]
    /\ UNCHANGED <<cancelAll, cancelledAgain>>
    /\ UNCHANGED <<auxv, cfg, cancel, mainv, yielded, taskv, filev, calls, sinceCheck,
                   startedAfterCancel, inFlightAtCancel, prefv, impl,
                   optsRef, selv>>

\* prefetch_artwork: fetch_all_artwork_options_impl has returned (each join
\* ended, by the thread's end or by its 30 s timeout) and the list is put
\* into prefetch_cache.
prefetch_artwork(t) ==
    /\ impl[t]["prefetch"] = "joining"
    /\ impl' = [impl EXCEPT ![t]["prefetch"] = "returned"]
    /\ prefetch_cache' = prefetch_cache \cup {t}
    /\ UNCHANGED <<auxv, cfg, cancel, mainv, yielded, taskv, filev, histv, iIdx,
                   prefetch_thread, pth, opts, optsRef, selv>>

\* ---------------------------------------------- run_job: interactive loop
\* The head of `for i, task in enumerate(tasks)`: break on a set token, else
\* start_prefetch for the next task (a new thread running
\* fetch_all_artwork_options_impl, unless its key is cached) and call
\* work_item.
run_job_iloop ==
    /\ pcMain = "iloop"
    /\ IF iIdx > total \/ is_cancelled
       THEN /\ pcMain' = "exit"
            /\ UNCHANGED <<prefetch_thread, impl, pth>>
       ELSE /\ pcMain' = "icall"
            /\ IF iIdx + 1 <= total /\ (iIdx + 1) \notin prefetch_cache
               THEN /\ prefetch_thread' = iIdx + 1
                    /\ impl' = [impl EXCEPT ![iIdx + 1]["prefetch"] = "joining"]
                    /\ pth' = [pth EXCEPT ![iIdx + 1]["prefetch"] = Spawned]
               ELSE UNCHANGED <<prefetch_thread, impl, pth>>
    /\ UNCHANGED <<auxv, cfg, cancel, result, total, done, errors, progress, yielded, taskv, filev,
                   histv, iIdx, prefetch_cache, opts, optsRef, selv>>

\* The loop goes on once work_item has returned (or raised).
WorkItemNotAwaited(t) == TRUE
WorkItemReturned(t) == fut[t] \in {"true", "false", "raised"}

\* The rest of the loop body: errors, done, progress. work_item's locals
\* have ended with the call.
run_job_icount ==
    /\ pcMain = "icall"
    /\ WorkItemReturned(iIdx)
    /\ errors' = IF fut[iIdx] = "true" THEN errors ELSE errors + 1
    /\ done' = done + 1
    /\ progress' = _emit_progress(progress, done')
    /\ iIdx' = iIdx + 1
    /\ pcMain' = "iloop"
    /\ pth' = [pth EXCEPT ![iIdx] = Unfollowed]
    /\ opts' = [opts EXCEPT ![iIdx] = [c \in Callers |-> <<>>]]
    /\ impl' = [impl EXCEPT ![iIdx] = [c \in Callers |-> "returned"]]
    /\ img' = [img EXCEPT ![iIdx] = NoImg]
    /\ offered' = [offered EXCEPT ![iIdx] = <<>>]
    /\ chosen' = {e \in chosen : e[1] # iIdx}
    /\ optsRef' = [optsRef EXCEPT ![iIdx] = "none"]
    /\ queried' = [queried EXCEPT ![iIdx] = {}]
    /\ UNCHANGED <<auxv, cfg, cancel, result, total, yielded, fut, tpc, provIdx, filev, calls,
                   sinceCheck, startedAfterCancel, inFlightAtCancel, cancelAll,
                   cancelledAgain, lateRequest,
                   prefetch_thread, prefetch_cache, selPc, dialogFor, dialogQueue,
                   btn_cancel>>

\* ------------------------------------------- work_item: interactive branch
\* `if not artwork_options`: the fallback icon or the no-art record; else
\* on to the selection request.
HaveOptions(t, c) ==
    IF opts[t][c] = <<>>
    THEN NoArt(t)
    ELSE /\ tpc' = [tpc EXCEPT ![t] = "select"]
         /\ UNCHANGED <<fut, review, img>>

\* get_prefetched_or_fetch once its join of prefetch_thread has ended (by
\* the thread's end or the 35 s timeout): pop the cached list, or start
\* fetch_all_artwork_options_impl in this thread.
get_prefetched_or_fetch(t) ==
    /\ tpc[t] = "fetch"
    /\ IF t \in prefetch_cache
       THEN /\ prefetch_cache' = prefetch_cache \ {t}
            /\ optsRef' = [optsRef EXCEPT ![t] = "prefetch"]
            /\ HaveOptions(t, "prefetch")
            /\ UNCHANGED <<impl, pth, opts>>
       ELSE /\ impl' = [impl EXCEPT ![t]["direct"] = "joining"]
            /\ pth' = [pth EXCEPT ![t] = [Unfollowed EXCEPT !["direct"] = Spawned]]
            /\ opts' = [opts EXCEPT ![t]["prefetch"] = <<>>]
            /\ tpc' = [tpc EXCEPT ![t] = "direct"]
            /\ UNCHANGED <<prefetch_cache, optsRef, fut, review, img>>
    /\ UNCHANGED <<auxv, cfg, cancel, mainv, yielded, provIdx, written, histv, iIdx,
                   prefetch_thread, selv>>

\* fetch_all_artwork_options_impl called by work_item returns its list (each
\* join ended, by the thread's end or by its 30 s timeout).
fetch_all_artwork_options_impl(t) ==
    /\ tpc[t] = "direct"
    /\ impl' = [impl EXCEPT ![t]["direct"] = "returned"]
    /\ optsRef' = [optsRef EXCEPT ![t] = "direct"]
    /\ HaveOptions(t, "direct")
    /\ UNCHANGED <<auxv, cfg, cancel, mainv, yielded, provIdx, written, histv, prefv,
                   pth, opts, selv>>

\* ----------------------------------------------- the selection round trip
\* IconGeneratorTab._request_artwork_selection, up to the blocking
\* invokeMethod: the request is stored in the instance, with a new Queue.
_request_artwork_selection(t) ==
    /\ tpc[t] = "select"
    /\ dialogFor' = t
    /\ dialogQueue' = <<>>
    /\ selPc' = "posted"
    /\ tpc' = [tpc EXCEPT ![t] = "blocked"]
    /\ UNCHANGED <<auxv, cfg, cancel, mainv, yielded, fut, provIdx, img, filev, histv, prefv,
                   fetchv, offered, chosen, btn_cancel>>

\* What the slot's exception handler puts into the queue.
ExceptionPutsNothing == <<>>
ExceptionPut == <<SkipTitle>>

\* _show_selection_dialog_on_main_thread up to dialog.exec(): the dialog is
\* built from the list as it is now; an exception puts None.
_show_selection_dialog_on_main_thread ==
    /\ selPc = "posted"
    /\ \E ok \in BOOLEAN :
          IF ok
          THEN /\ offered' = [offered EXCEPT ![dialogFor] =
                                 opts[dialogFor][optsRef[dialogFor]]]
               /\ selPc' = "showing"
               /\ UNCHANGED dialogQueue
          ELSE /\ dialogQueue' = dialogQueue \o ExceptionPut
               /\ selPc' = "answered"
               /\ UNCHANGED offered
    /\ UNCHANGED <<auxv, cfg, cancel, mainv, yielded, taskv, filev, histv, prefv, fetchv,
                   dialogFor, chosen, btn_cancel>>

\* ArtworkPickerDialog: accept with the checked index, skip (None) or
\* cancel all (-1); the slot puts the answer and returns.
Answers(n) == {CANCEL_ALL, SkipTitle} \cup (0..(n - 1))

ArtworkPickerDialog ==
    /\ selPc = "showing"
    /\ \E a \in Answers(Len(offered[dialogFor])) :
          dialogQueue' = Append(dialogQueue, a)
    /\ selPc' = "answered"
    /\ UNCHANGED <<auxv, cfg, cancel, mainv, yielded, taskv, filev, histv, prefv, fetchv,
                   dialogFor, offered, chosen, btn_cancel>>

\* _request_user_selection: the callback's answer when it returns one; None
\* when callbacks has no request_selection ("missing") or the callback raises.
_request_user_selection_cancels(how, answer) ==
    IF how = "return" THEN answer ELSE CANCEL_ALL
_request_user_selection(how, answer) ==
    IF how = "return" THEN answer ELSE SkipTitle

\* What work_item does with selected_index r: -1 sets the token and returns
\* False, None returns False, an index of the list selects its image, any
\* other value returns False.
selected_index_branch(t, r) ==
    LET list == opts[t][optsRef[t]]
    IN /\ chosen' = chosen \cup {<<t, r>>}
       /\ cancelAll' = (cancelAll \/ r = CANCEL_ALL)
       /\ cancelledAgain' = (cancelledAgain \/ (r = CANCEL_ALL /\ cancel))
       /\ IF r = CANCEL_ALL
          THEN /\ cancel' = CancelToken_cancel(cancel)
               /\ inFlightAtCancel' = IF cancel THEN inFlightAtCancel
                                      ELSE {u \in Tasks : fut[u] = "running"}
               /\ Return(t, "false")
               /\ UNCHANGED img
          ELSE IF r # SkipTitle /\ 0 <= r /\ r < Len(list)
          THEN /\ img' = [img EXCEPT ![t] = list[r + 1]]
               /\ tpc' = [tpc EXCEPT ![t] = "compose"]
               /\ UNCHANGED <<cancel, inFlightAtCancel, fut>>
          ELSE /\ Return(t, "false")
               /\ UNCHANGED <<cancel, inFlightAtCancel, img>>

\* _request_user_selection without an answer of the dialog: no callback, or
\* a callback that raises before it shows the dialog.
work_item_no_answer(t) ==
    /\ tpc[t] = "select"
    /\ \E how \in {"missing", "raise"} :
          selected_index_branch(t, _request_user_selection(how, SkipTitle))
    /\ UNCHANGED <<auxv, cfg, mainv, yielded, provIdx, filev, calls, sinceCheck,
                   startedAfterCancel, lateRequest, queried, prefv, fetchv, selPc,
                   dialogFor, dialogQueue, offered, btn_cancel>>

\* _request_artwork_selection after invokeMethod returned: the queue's get
\* (or an exception of the callback after it), and what work_item does with
\* selected_index.
work_item_selected(t) ==
    /\ tpc[t] = "blocked"
    /\ selPc = "answered"
    /\ dialogQueue # <<>>
    /\ \E how \in {"return", "raise"} :
          selected_index_branch(t, _request_user_selection(how, Head(dialogQueue)))
    /\ dialogQueue' = Tail(dialogQueue)
    /\ selPc' = "idle"
    /\ UNCHANGED <<auxv, cfg, mainv, yielded, provIdx, filev, calls, sinceCheck,
                   startedAfterCancel, lateRequest, queried, prefv, fetchv, dialogFor,
                   offered, btn_cancel>>

Next ==
    \/ cancel_job
    \/ run_job_prologue
    \/ run_job_submit
    \/ run_job_collect
    \/ run_job_return
    \/ \E t \in Tasks : work_item_enter(t)
    \/ \E t \in Tasks : work_item_loop(t)
    \/ \E t \in Tasks : work_item_call(t)
    \/ \E t \in Tasks : work_item_compose(t)
    \/ \E t \in Tasks : work_item_logo(t)
    \/ \E t \in Tasks : work_item_hero(t)
    \/ \E t \in Tasks : work_item_shots(t)

Spec == Init /\ [][Next]_vars

NextInteractive ==
    \/ cancel_job
    \/ run_job_prologue
    \/ run_job_iloop
    \/ run_job_icount
    \/ run_job_return
    \/ \E t \in Tasks : prefetch_artwork(t)
    \/ \E t \in Tasks, c \in Callers, p \in Providers : provider_thread_check(t, c, p)
    \/ \E t \in Tasks, c \in Callers, p \in Providers : provider_thread_fetch(t, c, p)
    \/ \E t \in Tasks : work_item_enter(t)
    \/ \E t \in Tasks : get_prefetched_or_fetch(t)
    \/ \E t \in Tasks : fetch_all_artwork_options_impl(t)
    \/ \E t \in Tasks : _request_artwork_selection(t)
    \/ _show_selection_dialog_on_main_thread
    \/ ArtworkPickerDialog
    \/ \E t \in Tasks : work_item_selected(t)
    \/ \E t \in Tasks : work_item_compose(t)
    \/ \E t \in Tasks : work_item_logo(t)
    \/ \E t \in Tasks : work_item_hero(t)
    \/ \E t \in Tasks : work_item_shots(t)

SpecInteractive == InitInteractive /\ [][NextInteractive]_vars

\* Interactive mode with any callbacks object: the GUI's, one without
\* request_selection, one whose request_selection raises.
NextSelection ==
    \/ NextInteractive
    \/ \E t \in Tasks : work_item_no_answer(t)

\* What work_item does with the answer depends neither on the number of
\* providers nor on the fallback icon: the jobs with at most one provider.
InitSelection ==
    /\ cfg \in {c \in JobConfigs(TRUE) : Len(c.order) <= 1}
    /\ InitCommon
    /\ AuxIdle

SpecSelection == InitSelection /\ [][NextSelection]_vars

\* ------------------------------------------------- run_job: the task list
\* A title is a sequence of characters: a word character, a space, and a
\* character that is neither.
TitleChars == {"a", " ", ":"}
WordChars == {"a", "_"}
SlugLimit == 180

TitlesOfLen(n) == [1..n -> TitleChars]
AllTitles == UNION {TitlesOfLen(n) : n \in 1..MaxTitleLen}

IsSpace(c) == c = " "
\* [^\w\- ]
IsRemoved(c) == c \notin WordChars \cup {"-", " "}

RECURSIVE lstrip(_)
lstrip(s) == IF s # <<>> /\ IsSpace(Head(s)) THEN lstrip(Tail(s)) ELSE s

RECURSIVE rstrip(_)
rstrip(s) ==
    IF s # <<>> /\ IsSpace(s[Len(s)]) THEN rstrip(SubSeq(s, 1, Len(s) - 1)) ELSE s

strip(s) == rstrip(lstrip(s))

\* re.sub(r"[^\w\- ]+", "", s)
RECURSIVE remove_others(_)
remove_others(s) ==
    IF s = <<>> THEN <<>>
    ELSE IF IsRemoved(Head(s)) THEN remove_others(Tail(s))
    ELSE <<Head(s)>> \o remove_others(Tail(s))

\* re.sub(r"\s+", "_", s)
RECURSIVE spaces_to_underscore(_)
spaces_to_underscore(s) ==
    IF s = <<>> THEN <<>>
    ELSE IF IsSpace(Head(s)) THEN <<"_">> \o spaces_to_underscore(lstrip(s))
    ELSE <<Head(s)>> \o spaces_to_underscore(Tail(s))

truncate(s, limit) == IF Len(s) > limit THEN SubSeq(s, 1, limit) ELSE s

safe_slug(s) == truncate(spaces_to_underscore(remove_others(strip(s))), SlugLimit)

iisu_folder_name == "gb"
out_path(title) == <<iisu_folder_name, safe_slug(title), "icon">>

SkipsNever(title, files) == FALSE
\* if out_path.exists(): continue
Skips(title, files) == out_path(title) \in files

RECURSIVE build_list(_, _)
build_list(ts, files) ==
    IF ts = <<>> THEN <<>>
    ELSE IF Skips(Head(ts), files) THEN build_list(Tail(ts), files)
    ELSE <<Head(ts)>> \o build_list(Tail(ts), files)

InitTasks ==
    /\ cfg = [order |-> <<"libretro">>, keys |-> {}, ntasks |-> 0, extras |-> {},
              fallback |-> "off", interactive |-> FALSE, title |-> "writable"]
    /\ InitCommon
    /\ titles \in UNION {[1..n -> AllTitles] : n \in 0..MaxTasks}
    /\ \A i, j \in DOMAIN titles : i # j => titles[i] # titles[j]
    /\ outfiles = {}
    /\ tasks = <<>>
    /\ bpc = "idle"
    /\ pos = 1
    /\ runOk = TRUE
    /\ prevOk = FALSE
    /\ filesAtBuild = {}
    /\ taskCalls = {}
    /\ CacheIdle
    /\ PickIdle
    /\ FunIdle

\* run_job up to the first task: the list of the titles still to do.
build_tasks ==
    /\ bpc = "idle"
    /\ tasks' = build_list(titles, outfiles)
    /\ filesAtBuild' = outfiles
    /\ taskCalls' = {}
    /\ pos' = 1
    /\ runOk' = TRUE
    /\ bpc' = "work"
    /\ UNCHANGED <<runv, cachev, pickv, funv, titles, outfiles, prevOk>>

\* work_item of the next task: the providers are asked, and the icon is
\* saved at out_path when the task succeeds.
process_task ==
    /\ bpc = "work"
    /\ pos <= Len(tasks)
    /\ taskCalls' = taskCalls \cup {tasks[pos]}
    /\ \E ok \in BOOLEAN :
        /\ outfiles' = IF ok THEN outfiles \cup {out_path(tasks[pos])} ELSE outfiles
        /\ runOk' = (runOk /\ ok)
    /\ pos' = pos + 1
    /\ UNCHANGED <<runv, cachev, pickv, funv, titles, tasks, bpc, prevOk, filesAtBuild>>

\* run_job returns ("Nothing to do" when the list was empty).
finish_run ==
    /\ bpc = "work"
    /\ pos > Len(tasks)
    /\ prevOk' = runOk
    /\ bpc' = "idle"
    /\ UNCHANGED <<runv, cachev, pickv, funv, titles, outfiles, tasks, pos, runOk, filesAtBuild, taskCalls>>

NextTasks ==
    \/ build_tasks
    \/ process_task
    \/ finish_run

SpecTasks == InitTasks /\ [][NextTasks]_vars

\* ------------------------------------------------------ the artwork cache
\* Each adapter resolves a title to one image URL; the URL is named by its
\* adapter here, and two workers asking the same adapter ask for the same URL.
\* The cache entry of a URL is cache_dir / sha256_text(url).bin.
UsesCache(p) == p \in {"steamgriddb", "igdb"}

InitCache ==
    /\ cfg = [order |-> <<"libretro">>, keys |-> {}, ntasks |-> 0, extras |-> {},
              fallback |-> "off", interactive |-> FALSE, title |-> "writable"]
    /\ InitCommon
    /\ BuildIdle
    /\ CacheIdle
    /\ PickIdle
    /\ FunIdle

\* A worker's provider call reaches the image URL.
adapter_begin(w, p) ==
    /\ apc[w] = "idle"
    /\ aprov' = [aprov EXCEPT ![w] = p]
    /\ late' = [late EXCEPT ![w] = p \in returned]
    /\ net' = [net EXCEPT ![w] = FALSE]
    /\ got' = [got EXCEPT ![w] = "none"]
    /\ apc' = [apc EXCEPT ![w] = IF UsesCache(p) THEN "exists" ELSE "get"]
    /\ UNCHANGED <<runv, buildv, pickv, funv, cache_dir, returned>>

\* if cache_path.exists():
cache_path_exists(w) ==
    /\ apc[w] = "exists"
    /\ apc' = [apc EXCEPT ![w] = IF cache_dir[aprov[w]] # "absent" THEN "read" ELSE "get"]
    /\ UNCHANGED <<runv, buildv, pickv, funv, cache_dir, aprov, got, net, late, returned>>

\* cache_path.read_bytes(): the bytes the file holds now.
cache_path_read_bytes(w) ==
    /\ apc[w] = "read"
    /\ got' = [got EXCEPT ![w] = cache_dir[aprov[w]]]
    /\ apc' = [apc EXCEPT ![w] = "return"]
    /\ UNCHANGED <<runv, buildv, pickv, funv, cache_dir, aprov, net, late, returned>>

\* download_bytes(url, timeout_s), or requests.get(url) in the libretro
\* adapter, which returns the content; a failed download returns None.
download_bytes(w) ==
    /\ apc[w] = "get"
    /\ net' = [net EXCEPT ![w] = TRUE]
    /\ \E ok \in BOOLEAN :
        IF ~ok THEN
            /\ apc' = [apc EXCEPT ![w] = "return"]
            /\ got' = got
        ELSE IF UsesCache(aprov[w]) THEN
            /\ apc' = [apc EXCEPT ![w] = "open"]
            /\ got' = [got EXCEPT ![w] = "complete"]
        ELSE
            /\ apc' = [apc EXCEPT ![w] = "return"]
            /\ got' = [got EXCEPT ![w] = "complete"]
    /\ UNCHANGED <<runv, buildv, pickv, funv, cache_dir, aprov, late, returned>>

\* cache_path.write_bytes(img_bytes), first half: the file is opened for
\* writing, which creates it or empties it.
write_bytes_open(w) ==
    /\ apc[w] = "open"
    /\ cache_dir' = [cache_dir EXCEPT ![aprov[w]] = "partial"]
    /\ apc' = [apc EXCEPT ![w] = "write"]
    /\ UNCHANGED <<runv, buildv, pickv, funv, aprov, got, net, late, returned>>

\* cache_path.write_bytes(img_bytes), second half: the bytes are written
\* and the file is closed.
write_bytes_close(w) ==
    /\ apc[w] = "write"
    /\ cache_dir' = [cache_dir EXCEPT ![aprov[w]] = "complete"]
    /\ apc' = [apc EXCEPT ![w] = "return"]
    /\ UNCHANGED <<runv, buildv, pickv, funv, aprov, got, net, late, returned>>

\* The adapter returns the image (or None).
adapter_return(w) ==
    /\ apc[w] = "return"
    /\ returned' = IF got[w] # "none" THEN returned \cup {aprov[w]} ELSE returned
    /\ apc' = [apc EXCEPT ![w] = "idle"]
    /\ UNCHANGED <<runv, buildv, pickv, funv, cache_dir, aprov, got, net, late>>

NextCache ==
    \/ \E w \in CacheWorkers, p \in Providers : adapter_begin(w, p)
    \/ \E w \in CacheWorkers : cache_path_exists(w)
    \/ \E w \in CacheWorkers : cache_path_read_bytes(w)
    \/ \E w \in CacheWorkers : download_bytes(w)
    \/ \E w \in CacheWorkers : write_bytes_open(w)
    \/ \E w \in CacheWorkers : write_bytes_close(w)
    \/ \E w \in CacheWorkers : adapter_return(w)

SpecCache == InitCache /\ [][NextCache]_vars

\* ---------------------------------------------------------- pick_best_grid
\* A grid URL is a sequence of pieces: spaces, a name, an extension.
GridUrls == {<<" ">>, <<"a", ".png">>, <<"a", ".WEBP">>}
GridDims == {<<1, 1>>, <<2, 2>>}
Scores == {0, 1}
Upvotes == {0, 1}
GridIds == 1..MaxGrids
Grids == [id : GridIds, score : Scores, upvotes : Upvotes, dim : GridDims, url : GridUrls]

\* config: prefer_dim, e.g. "1024x1024"
prefer_dim == <<1, "x", 1>>

\* url.lower()
lower(url) == [i \in DOMAIN url |-> IF url[i] = ".WEBP" THEN ".webp" ELSE url[i]]

\* url.lower().endswith(".webp")
is_animated(url) == url # <<>> /\ lower(url)[Len(url)] = ".webp"

\* f"{g.get('width')}x{g.get('height')}"
DimString(g) == <<g.dim[1], "x", g.dim[2]>>

\* The loop over grids: the ones with a URL, not animated unless allowed.
RECURSIVE filtered(_, _)
filtered(gs, animated_ok) ==
    IF gs = <<>> THEN <<>>
    ELSE LET g == Head(gs)
             url == strip(g.url)
         IN  IF url = <<>> \/ (~animated_ok /\ is_animated(url))
             THEN filtered(Tail(gs), animated_ok)
             ELSE <<g>> \o filtered(Tail(gs), animated_ok)

\* [g for g in filtered if f"{width}x{height}" == prefer_dim]
RECURSIVE exact(_)
exact(gs) ==
    IF gs = <<>> THEN <<>>
    ELSE IF DimString(Head(gs)) = prefer_dim THEN <<Head(gs)>> \o exact(Tail(gs))
    ELSE exact(Tail(gs))

SortKeyLowIdFirst(g) == <<g.score, g.upvotes, 0 - g.id>>
\* key=lambda x: (x.get("score", 0), x.get("upvotes", 0), x.get("id", 0))
SortKey(g) == <<g.score, g.upvotes, g.id>>

\* Python's order of tuples.
TupleLess(a, b) ==
    \/ a[1] < b[1]
    \/ a[1] = b[1] /\ a[2] < b[2]
    \/ a[1] = b[1] /\ a[2] = b[2] /\ a[3] < b[3]

\* list.sort(key=..., reverse=True): descending, and stable.
RECURSIVE insert_reverse(_, _)
insert_reverse(g, sorted) ==
    IF sorted = <<>> THEN <<g>>
    ELSE IF TupleLess(SortKey(Head(sorted)), SortKey(g)) THEN <<g>> \o sorted
    ELSE <<Head(sorted)>> \o insert_reverse(g, Tail(sorted))

RECURSIVE sort_reverse(_)
sort_reverse(gs) ==
    IF gs = <<>> THEN <<>>
    ELSE insert_reverse(gs[Len(gs)], sort_reverse(SubSeq(gs, 1, Len(gs) - 1)))

pick_best_grid(gs, animated_ok, square) ==
    LET f == filtered(gs, animated_ok)
        e == exact(f)
    IN  IF gs = <<>> \/ f = <<>> THEN <<>>
        ELSE IF square
        THEN IF e = <<>> THEN <<>> ELSE <<Head(sort_reverse(e))>>
        ELSE <<Head(sort_reverse(f))>>

InitPick ==
    /\ cfg = [order |-> <<"libretro">>, keys |-> {}, ntasks |-> 0, extras |-> {},
              fallback |-> "off", interactive |-> FALSE, title |-> "writable"]
    /\ InitCommon
    /\ BuildIdle
    /\ CacheIdle
    /\ grids \in UNION {[1..n -> Grids] : n \in 0..MaxGrids}
    /\ \A i, j \in DOMAIN grids : i # j => grids[i].id # grids[j].id
    /\ allow_animated \in BOOLEAN
    /\ square_only \in BOOLEAN
    /\ best = <<>>
    /\ ppc = "call"
    /\ FunIdle

\* best = pick_best_grid(grids, prefer_dim=..., allow_animated=..., square_only=...)
call_pick_best_grid ==
    /\ ppc = "call"
    /\ best' = pick_best_grid(grids, allow_animated, square_only)
    /\ ppc' = "done"
    /\ UNCHANGED <<runv, buildv, cachev, funv, grids, allow_animated, square_only>>

NextPick == call_pick_best_grid

SpecPick == InitPick /\ [][NextPick]_vars

\* ------------------------------------------------- extract_year_from_title
\* A text is a sequence of characters; the texts tried are put together
\* from a few pieces.
DigitChars == <<"0", "1", "2", "3", "4", "5", "6", "7", "8", "9">>
IsDigit(c) == \E i \in DOMAIN DigitChars : DigitChars[i] = c
DigitVal(c) == (CHOOSE i \in DOMAIN DigitChars : DigitChars[i] = c) - 1
\* \w
LowerLetters == {"a", "b", "i", "v", "x", "s", "n"}
UpperLetters == {"A", "S"}
IsWordChar(c) == IsDigit(c) \/ c \in LowerLetters \cup UpperLetters \cup {"_"}

RECURSIVE Flatten(_)
Flatten(pieces) == IF pieces = <<>> THEN <<>> ELSE Head(pieces) \o Flatten(Tail(pieces))

TextsFrom(pieces, n) == {Flatten(ps) : ps \in UNION {[1..k -> pieces] : k \in 0..n}}

YearPieces ==
    { <<"(", "1", "9", "8", "5", ")">>, <<"(", "1", "9", "6", "5", ")">>,
      <<"(", "2", "0", "3", "0", ")">>, <<"1", "9", "9", "2">>, <<"2", "0", "2", "9">>,
      <<"a">>, <<" ">>, <<"(">>, <<"5">> }

\* int(match.group(1)) of four digits starting at i
Int4(s, i) ==
    DigitVal(s[i]) * 1000 + DigitVal(s[i + 1]) * 100 + DigitVal(s[i + 2]) * 10
        + DigitVal(s[i + 3])

\* r'\((\d{4})\)' matches at i
ParenYearAt(s, i) ==
    /\ i >= 1
    /\ i + 5 <= Len(s)
    /\ s[i] = "("
    /\ \A k \in 1..4 : IsDigit(s[i + k])
    /\ s[i + 5] = ")"

\* r'\b(19[7-9]\d|20[0-2]\d)\b' matches at i
BareYearAt(s, i) ==
    /\ i >= 1
    /\ i + 3 <= Len(s)
    /\ \A k \in 0..3 : IsDigit(s[i + k])
    /\ \/ s[i] = "1" /\ s[i + 1] = "9" /\ DigitVal(s[i + 2]) >= 7
       \/ s[i] = "2" /\ s[i + 1] = "0" /\ DigitVal(s[i + 2]) <= 2
    /\ i = 1 \/ ~IsWordChar(s[i - 1])
    /\ i + 3 = Len(s) \/ ~IsWordChar(s[i + 4])

\* re.search: the leftmost match, 0 when there is none
FirstParenYear(s) ==
    IF \E i \in 1..Len(s) : ParenYearAt(s, i)
    THEN CHOOSE i \in 1..Len(s) : ParenYearAt(s, i) /\ \A j \in 1..(i - 1) : ~ParenYearAt(s, j)
    ELSE 0

FirstBareYear(s) ==
    IF \E i \in 1..Len(s) : BareYearAt(s, i)
    THEN CHOOSE i \in 1..Len(s) : BareYearAt(s, i) /\ \A j \in 1..(i - 1) : ~BareYearAt(s, j)
    ELSE 0

\* The standalone years alone, whatever stands in parentheses.
extract_year_bare_only(title) ==
    IF FirstBareYear(title) # 0 THEN <<Int4(title, FirstBareYear(title))>> ELSE <<>>

\* <<>> for None, else <<year>>
extract_year_from_title(title) ==
    LET p == FirstParenYear(title)
        b == FirstBareYear(title)
    IN  IF title = <<>> THEN <<>>
        ELSE IF p # 0 /\ 1970 <= Int4(title, p + 1) /\ Int4(title, p + 1) <= 2030
        THEN <<Int4(title, p + 1)>>
        ELSE IF b # 0 THEN <<Int4(title, b)>>
        ELSE <<>>

InitFun ==
    /\ cfg = [order |-> <<"libretro">>, keys |-> {}, ntasks |-> 0, extras |-> {},
              fallback |-> "off", interactive |-> FALSE, title |-> "writable"]
    /\ InitCommon
    /\ BuildIdle
    /\ CacheIdle
    /\ PickIdle
    /\ output = <<>>
    /\ fpc = "call"

InitYear ==
    /\ InitFun
    /\ input \in TextsFrom(YearPieces, MaxSegs)

call_extract_year_from_title ==
    /\ fpc = "call"
    /\ output' = extract_year_from_title(input)
    /\ fpc' = "done"
    /\ UNCHANGED <<runv, buildv, cachev, pickv, input>>

NextYear == call_extract_year_from_title

SpecYear == InitYear /\ [][NextYear]_vars

\* ------------------------------------------------------------ score_candidate
\* str.lower()
str_lower(s) ==
    [i \in DOMAIN s |-> IF s[i] = "A" THEN "a" ELSE IF s[i] = "S" THEN "s" ELSE s[i]]

startswith(a, b) == Len(b) <= Len(a) /\ SubSeq(a, 1, Len(b)) = b

\* b in a
contains(a, b) == \E i \in 0..(Len(a) - Len(b)) : SubSeq(a, i + 1, i + Len(b)) = b

\* [a-z0-9]
IsTokenChar(c) == IsDigit(c) \/ c \in LowerLetters

\* set(re.findall(r"[a-z0-9]+", s))
Tokens(s) ==
    { SubSeq(s, i, j) : <<i, j>> \in
        { p \in (1..Len(s)) \X (1..Len(s)) :
            /\ p[1] <= p[2]
            /\ \A k \in p[1]..p[2] : IsTokenChar(s[k])
            /\ p[1] = 1 \/ ~IsTokenChar(s[p[1] - 1])
            /\ p[2] = Len(s) \/ ~IsTokenChar(s[p[2] + 1]) } }

Min(a, b) == IF a <= b THEN a ELSE b
Abs(a) == IF a < 0 THEN 0 - a ELSE a

\* The digits a text ends with.
RECURSIVE TrailingDigits(_)
TrailingDigits(s) ==
    IF s # <<>> /\ IsDigit(s[Len(s)])
    THEN TrailingDigits(SubSeq(s, 1, Len(s) - 1)) \o <<s[Len(s)]>>
    ELSE <<>>

\* The word a text ends with.
RECURSIVE TrailingWord(_)
TrailingWord(s) ==
    IF s # <<>> /\ IsWordChar(s[Len(s)])
    THEN TrailingWord(SubSeq(s, 1, Len(s) - 1)) \o <<s[Len(s)]>>
    ELSE <<>>

roman_keys ==
    << <<"i">>, <<"i", "i">>, <<"i", "i", "i">>, <<"i", "v">>, <<"v">>, <<"v", "i">>,
       <<"v", "i", "i">>, <<"v", "i", "i", "i">>, <<"i", "x">>, <<"x">>, <<"x", "i">>,
       <<"x", "i", "i">>, <<"x", "i", "i", "i">>, <<"x", "i", "v">>, <<"x", "v">> >>

\* str(n) for the values of roman_map
DecimalString(n) ==
    IF n < 10 THEN <<DigitChars[n + 1]>> ELSE <<DigitChars[(n \div 10) + 1], DigitChars[(n % 10) + 1]>>

\* <<>> for None, else the number as a string. The first pattern asks for
\* separators before the digits, the second does not; both take the digits
\* the title ends with (before trailing spaces). Then the Roman numeral the
\* title ends with, as a whole word, if roman_map has it.
extract_sequel_number(title) ==
    LET t == rstrip(strip(str_lower(title)))
        d == TrailingDigits(t)
        before == SubSeq(t, 1, Len(t) - Len(d))
        w == TrailingWord(t)
    IN  IF title = <<>> THEN <<>>
        ELSE IF d # <<>> /\ before # <<>> /\ before[Len(before)] \in {" ", ":", "-"} THEN d
        ELSE IF d # <<>> THEN d
        ELSE IF \E k \in DOMAIN roman_keys : roman_keys[k] = w
        THEN DecimalString(CHOOSE k \in DOMAIN roman_keys : roman_keys[k] = w)
        ELSE <<>>

\* <<>> for None, else the text after the first colon or dash, stripped and
\* lowered, when it is longer than 2 and not all digits.
extract_subtitle(title) ==
    LET marks == {i \in 1..Len(title) : title[i] \in {":", "-"}}
        first == CHOOSE i \in marks : \A j \in marks : i <= j
        rest == SubSeq(title, first + 1, Len(title))
        sub == str_lower(strip(rest))
    IN  IF title = <<>> \/ marks = {} \/ rest = <<>> THEN <<>>
        ELSE IF Len(sub) > 2 /\ ~(\A k \in DOMAIN sub : IsDigit(sub[k])) THEN sub
        ELSE <<>>

\* get_release_year_from_meta for a release_date string: r'(\d{4})'
get_release_year_from_meta(meta) ==
    LET rd == meta.release_date
        hits == {i \in 1..(Len(rd) - 3) : \A k \in 0..3 : IsDigit(rd[i + k])}
    IN  IF hits = {} THEN <<>>
        ELSE <<Int4(rd, CHOOSE i \in hits : \A j \in hits : i <= j)>>

name_term(t, n) ==
    IF n = t THEN 200
    ELSE IF startswith(n, t) \/ startswith(t, n) THEN 140
    ELSE IF contains(n, t) \/ contains(t, n) THEN 90
    ELSE 0

\* for h in platform_hints: if hh and hh in meta_text: score += 60
RECURSIVE hints_term(_, _)
hints_term(hints, meta_text) ==
    IF hints = <<>> THEN 0
    ELSE (IF str_lower(Head(hints)) # <<>> /\ contains(meta_text, str_lower(Head(hints)))
          THEN 60 ELSE 0) + hints_term(Tail(hints), meta_text)

sequel_term_swapped(title_num, candidate_num) ==
    IF title_num = <<>> THEN 0
    ELSE IF candidate_num = title_num THEN 0 - 200
    ELSE IF candidate_num # <<>> THEN 150
    ELSE 0 - 150

sequel_term(title_num, candidate_num) ==
    IF title_num = <<>> THEN 0
    ELSE IF candidate_num = title_num THEN 150
    ELSE IF candidate_num # <<>> THEN 0 - 200
    ELSE 0 - 150

subtitle_term(title_subtitle, candidate_subtitle) ==
    LET overlap == Cardinality(Tokens(title_subtitle) \cap Tokens(candidate_subtitle))
    IN  IF title_subtitle = <<>> THEN 0
        ELSE IF candidate_subtitle = <<>> THEN 0 - 80
        ELSE IF overlap >= 2 THEN 100
        ELSE IF overlap = 1 THEN 30
        ELSE 0 - 50

year_term(title_year, meta_year) ==
    IF title_year = <<>> \/ meta_year = <<>> THEN 0
    ELSE IF title_year[1] = 0 \/ meta_year[1] = 0 THEN 0
    ELSE LET year_diff == Abs(title_year[1] - meta_year[1])
         IN  IF year_diff = 0 THEN 100
             ELSE IF year_diff = 1 THEN 50
             ELSE IF year_diff <= 2 THEN 20
             ELSE IF year_diff >= 5 THEN 0 - 50
             ELSE 0

\* game_meta is given by the text _flatten_strings makes of it and by its
\* release_date string.
score_candidate(title, candidate_name, game_meta, platform_hints) ==
    LET t == strip(str_lower(title))
        n == strip(str_lower(candidate_name))
    IN  name_term(t, n)
        + Min(Cardinality(Tokens(t) \cap Tokens(n)) * 8, 80)
        + hints_term(platform_hints, str_lower(game_meta.text))
        + sequel_term(extract_sequel_number(title), extract_sequel_number(candidate_name))
        + subtitle_term(extract_subtitle(title), extract_subtitle(candidate_name))
        + year_term(extract_year_from_title(title), get_release_year_from_meta(game_meta))

ScorePieces == {<<"a">>, <<":">>, <<"(", "1", "9", "8", "5", ")">>}
HintTexts == {<<>>, <<"s">>}
Metas == [text : {<<"S", " ", "a">>, <<"n">>},
          release_date : {<<>>, <<"1", "9", "8", "5">>, <<"1", "9", "9", "1">>}]

\* A query ending in a sequel digit, a candidate of the same name, one that
\* differs in that digit only, the metadata of each, and the hints.
InitScore ==
    /\ InitFun
    /\ \E stem \in TextsFrom(ScorePieces, MaxSegs), sep \in {<<>>, <<" ">>},
          metaA \in Metas, metaB \in Metas, h \in HintTexts, k \in 0..MaxHints :
          input = [title |-> stem \o sep \o <<"2">>, other |-> stem \o sep \o <<"3">>,
                   metaA |-> metaA, metaB |-> metaB, hints |-> [i \in 1..k |-> h]]

\* choose_best_game_id: s = score_candidate(title, name, meta, platform_hints)
\* for each of the two candidates
call_score_candidate ==
    /\ fpc = "call"
    /\ output' = << score_candidate(input.title, input.title, input.metaA, input.hints),
                    score_candidate(input.title, input.other, input.metaB, input.hints) >>
    /\ fpc' = "done"
    /\ UNCHANGED <<runv, buildv, cachev, pickv, input>>

NextScore == call_score_candidate

SpecScore == InitScore /\ [][NextScore]_vars

\* -------------------------------------------------------- detect_and_crop_logo
\* The default ratios, in percent.
min_content_ratio == 15
max_crop_ratio == 85

Sides == 1..MaxSide

\* content_ratio < min_content_ratio, with content_ratio the quotient of the areas
too_small(crop_w, crop_h, orig_w, orig_h) ==
    crop_w * crop_h * 100 < min_content_ratio * orig_w * orig_h

\* The box is too similar when its area exceeds the ratio.
too_similar_by_area(crop_w, crop_h, orig_w, orig_h) ==
    crop_w * crop_h * 100 > max_crop_ratio * orig_w * orig_h

\* crop_w > orig_w * max_crop_ratio and crop_h > orig_h * max_crop_ratio
too_similar(crop_w, crop_h, orig_w, orig_h) ==
    crop_w * 100 > orig_w * max_crop_ratio /\ crop_h * 100 > orig_h * max_crop_ratio

\* The image returned, by its size and whether it is the crop. bbox is what
\* the detection gave: <<>> for None, else <<x1, y1, x2, y2>>.
detect_and_crop_logo(orig_w, orig_h, method, bbox) ==
    LET original == [cropped |-> FALSE, size |-> <<orig_w, orig_h>>]
        crop_w == bbox[3] - bbox[1]
        crop_h == bbox[4] - bbox[2]
    IN  IF method = "none" THEN original
        ELSE IF bbox = <<>> THEN original
        ELSE IF crop_w <= 0 \/ crop_h <= 0 THEN original
        ELSE IF too_small(crop_w, crop_h, orig_w, orig_h) THEN original
        ELSE IF too_similar(crop_w, crop_h, orig_w, orig_h) THEN original
        ELSE [cropped |-> TRUE, size |-> <<crop_w, crop_h>>]

InitCrop ==
    /\ InitFun
    /\ \E w \in Sides, h \in Sides, m \in {"auto", "none"} :
        \E b \in {<<>>} \cup {<<x1, y1, x2, y2>> : x1 \in 0..w, y1 \in 0..h, x2 \in 0..w, y2 \in 0..h} :
            input = [orig_w |-> w, orig_h |-> h, method |-> m, bbox |-> b]

call_detect_and_crop_logo ==
    /\ fpc = "call"
    /\ output' = detect_and_crop_logo(input.orig_w, input.orig_h, input.method, input.bbox)
    /\ fpc' = "done"
    /\ UNCHANGED <<runv, buildv, cachev, pickv, input>>

NextCrop == call_detect_and_crop_logo

SpecCrop == InitCrop /\ [][NextCrop]_vars

\* ------------------------------------------------------------ fill_center_hole
\* An alpha bitmap: its size and its pixels, addressed <<x, y>> from <<0, 0>>.
\* Pixels are 0 or 255, as corner_mask_from_border makes them; the centre
\* may also be in between.
PixelsOf(w, h) == (0..(w - 1)) \X (0..(h - 1))
Centre(w, h) == <<w \div 2, h \div 2>>
Bitmaps(n) ==
    UNION { UNION { { [w |-> w, h |-> h, px |-> [f EXCEPT ![Centre(w, h)] = c]] :
                        f \in [PixelsOf(w, h) -> {0, 255}], c \in {0, 128, 255} } :
                    h \in 1..(n \div w) } : w \in 1..n }

\* With the diagonals as well.
neighbours8(x, y) ==
    << <<x - 1, y>>, <<x + 1, y>>, <<x, y - 1>>, <<x, y + 1>>,
       <<x - 1, y - 1>>, <<x + 1, y + 1>>, <<x + 1, y - 1>>, <<x - 1, y + 1>> >>

\* ((x-1,y), (x+1,y), (x,y-1), (x,y+1))
neighbours(x, y) == << <<x - 1, y>>, <<x + 1, y>>, <<x, y - 1>>, <<x, y + 1>> >>

\* The `for nx, ny in ...` loop: the neighbours inside the bitmap, not
\* visited and zero, are added to visited and appended to the queue.
RECURSIVE visit(_, _, _, _)
visit(ns, px, visited, q) ==
    IF ns = <<>> THEN [visited |-> visited, q |-> q]
    ELSE LET n == Head(ns)
         IN  IF n \in DOMAIN px /\ n \notin visited /\ px[n] = 0
             THEN visit(Tail(ns), px, visited \cup {n}, Append(q, n))
             ELSE visit(Tail(ns), px, visited, q)

InitFill ==
    /\ InitFun
    /\ input \in Bitmaps(MaxPixels)

\* fill_center_hole up to the loop: a = alpha.convert("L") is a copy; a
\* non-zero centre returns it as it is.
fill_center_hole_begin ==
    /\ fpc = "call"
    /\ IF input.px[Centre(input.w, input.h)] # 0
       THEN /\ output' = [px |-> input.px, q |-> <<>>, visited |-> {}]
            /\ fpc' = "done"
       ELSE /\ output' = [px |-> input.px, q |-> <<Centre(input.w, input.h)>>,
                          visited |-> {Centre(input.w, input.h)}]
            /\ fpc' = "loop"
    /\ UNCHANGED <<runv, buildv, cachev, pickv, input>>

\* One turn of `while q:`.
fill_center_hole_step ==
    /\ fpc = "loop"
    /\ output.q # <<>>
    /\ LET xy == Head(output.q)
           px1 == [output.px EXCEPT ![xy] = 255]
           v == visit(neighbours(xy[1], xy[2]), px1, output.visited, Tail(output.q))
       IN  output' = [px |-> px1, q |-> v.q, visited |-> v.visited]
    /\ UNCHANGED <<runv, buildv, cachev, pickv, input, fpc>>

\* The queue is empty: return a.
fill_center_hole_return ==
    /\ fpc = "loop"
    /\ output.q = <<>>
    /\ fpc' = "done"
    /\ UNCHANGED <<runv, buildv, cachev, pickv, input, output>>

NextFill ==
    \/ fill_center_hole_begin
    \/ fill_center_hole_step
    \/ fill_center_hole_return

SpecFill == InitFill /\ [][NextFill]_vars

\* ----------------------------------------------------- _best_centering_for_img
\* Spans are in hundredths. With steps >= 2 an offset is a multiple of
\* 1 / (100 * (steps - 1)) and is given by its numerator; a centering point
\* is given by its two offsets from (0.5, 0.5).
Max(a, b) == IF a >= b THEN a ELSE b

\* steps = max(1, int(steps))
clamp_steps(steps) == Max(1, steps)
\* span = max(0.0, min(0.49, float(span)))
clamp_span(span) == Max(0, Min(49, span))

\* offsets = [(-span + (2 * span) * i / (steps - 1)) for i in range(steps)]
offsets(steps, span) == [k \in 1..steps |-> (2 * (k - 1) - (steps - 1)) * span]

\* `for oy in offsets: for ox in offsets`, in the order of the loops
CandidatePoints(steps, span) ==
    [k \in 1..(steps * steps) |->
        << offsets(steps, span)[((k - 1) % steps) + 1],
           offsets(steps, span)[((k - 1) \div steps) + 1] >>]

\* What center_crop_to_square and _content_centroid give for a centering
\* point is the image's: the score of the point, (mx - 0.5)^2 + (my - 0.5)^2
\* and 10 more without content, is 0, 1 or 10 here.
Measurements(steps, span) ==
    [ {CandidatePoints(steps, span)[k] : k \in 1..(steps * steps)} \cup {<<0, 0>>}
        -> {0, 1, 10} ]

\* max(0.0, min(1.0, c)) of 0.5 + offset, as a numerator over 100 * (steps - 1)
clamp_centering(steps, offset) ==
    Max(0, Min(100 * (steps - 1), 50 * (steps - 1) + offset))

\* The scan: the first point of the lowest score.
RECURSIVE scan(_, _, _, _)
scan(points, measure, best_c, best_score) ==
    IF points = <<>> THEN [c |-> best_c, score |-> best_score]
    ELSE IF measure[Head(points)] < best_score
         THEN scan(Tail(points), measure, Head(points), measure[Head(points)])
         ELSE scan(Tail(points), measure, best_c, best_score)

\* best_score = 1e9
NoScore == 1000000000

_best_centering_for_img(steps0, span0, measure) ==
    LET steps == clamp_steps(steps0)
        span == clamp_span(span0)
        found == scan(CandidatePoints(steps, span), measure, <<0, 0>>, NoScore)
    IN  IF steps = 1
        THEN [best_c |-> <<50, 50>>, den |-> 100, score |-> measure[<<0, 0>>]]
        ELSE [best_c |-> << clamp_centering(steps, found.c[1]),
                            clamp_centering(steps, found.c[2]) >>,
              den |-> 100 * (steps - 1), score |-> found.score]

InitCentering ==
    /\ InitFun
    /\ \E st \in 0..MaxSteps, sp \in {0, 22, 60} :
        \E m \in Measurements(clamp_steps(st), clamp_span(sp)) :
            input = [steps |-> st, span |-> sp, measure |-> m]

call_best_centering_for_img ==
    /\ fpc = "call"
    /\ output' = _best_centering_for_img(input.steps, input.span, input.measure)
    /\ fpc' = "done"
    /\ UNCHANGED <<runv, buildv, cachev, pickv, input>>

NextCentering == call_best_centering_for_img

SpecCentering == InitCentering /\ [][NextCentering]_vars

\* ------------------------------------------------------------------ claims
IconsOf(t) == {w \in written : w[1] = t /\ w[2] = "icon"}
Touched(t) ==
    \/ calls[t] # <<>>
    \/ \E w \in written : w[1] = t
    \/ \E r \in review : r[1] = t

\* C1: in interactive mode, once work_item has received CANCEL_ALL and set
\* the token, no provider request begins (the prefetch started for the next
\* task included).
C1_NoRequestAfterCancelAll == ~lateRequest

\* C2: in interactive mode, when the answer is an index k of the options
\* the dialog offered, the image work_item composites and writes as the
\* task's icon is the k-th offered option, whatever provider threads append
\* to the list meanwhile.
C2_SelectedImageIsOffered ==
    \A t \in Tasks : \A k \in 0..(Len(offered[t]) - 1) :
        <<t, k>> \in chosen =>
            /\ img[t] = offered[t][k + 1]
            /\ IconsOf(t) \subseteq {<<t, "icon", offered[t][k + 1]>>}
            /\ fut[t] = "true" => IconsOf(t) # {}

\* An offered option was chosen from a list that provider threads have
\* extended since it was offered, and the icon written is that option.
C2_Witness ==
    \E t \in Tasks : \E k \in 0..(Len(offered[t]) - 1) :
        /\ <<t, k>> \in chosen
        /\ Len(opts[t][optsRef[t]]) > Len(offered[t])
        /\ <<t, "icon", offered[t][k + 1]>> \in written

\* C3: every selection request is answered exactly once: the worker stays
\* blocked while the request is posted or shown with nothing in its queue,
\* the slot puts exactly one result on its normal and on its exception
\* path, and the result a worker proceeds with is the one of its request.
C3_AnsweredExactlyOnce ==
    /\ selPc \in {"posted", "showing"} =>
          dialogQueue = <<>> /\ tpc[dialogFor] = "blocked"
    /\ selPc = "answered" =>
          /\ Len(dialogQueue) = 1
          /\ dialogQueue[1] \in Answers(Len(offered[dialogFor]))
          /\ tpc[dialogFor] = "blocked"
    /\ selPc = "idle" =>
          dialogQueue = <<>> /\ \A t \in Tasks : tpc[t] # "blocked"
    /\ \A t \in Tasks : tpc[t] = "blocked" => dialogFor = t
    /\ \A e \in chosen : e[1] = dialogFor /\ e[2] \in Answers(Len(offered[e[1]]))

\* The slot failed before the dialog was built and the worker holds the one
\* None it put.
C3_Witness ==
    \E t \in Tasks :
        /\ <<t, SkipTitle>> \in chosen
        /\ offered[t] = <<>>
        /\ fut[t] = "false"
        /\ selPc = "idle"

\* C4: in interactive mode at most one task is inside work_item at any
\* time, and while a selection request is open the task it belongs to is
\* that one, however the prefetch threads interleave.
C4_OneTaskAtATime ==
    /\ Cardinality({t \in Tasks : fut[t] = "running"}) <= 1
    /\ \A t \in Tasks : tpc[t] \notin {"idle", "ret"} => fut[t] = "running"
    /\ selPc # "idle" => \A t \in Tasks : fut[t] = "running" => t = dialogFor

\* The dialog of one task shows while a prefetch thread of the next task
\* is between its check and its request.
C4_Witness ==
    \E t \in Tasks :
        /\ selPc = "showing" /\ dialogFor = t
        /\ t + 1 \in Tasks
        /\ \E p \in Providers : pth[t + 1]["prefetch"][p] = "search"

\* C5: in parallel mode, a task that starts after the token is set makes no
\* fetch and writes nothing, a task in flight when the token is set is not
\* cancelled, and run_job returns only when no task is running.
C5_CancelParallel ==
    /\ \A t \in Tasks : t \in startedAfterCancel => ~Touched(t) /\ fut[t] = "false"
    /\ \A t \in Tasks : fut[t] = "cancelled" => ~Touched(t) /\ tpc[t] = "idle"
    /\ \A t \in inFlightAtCancel : fut[t] \in {"running", "true", "false", "raised"}
    /\ pcMain = "returned" => \A t \in Tasks : fut[t] # "running"

\* The run has returned cancelled: a task in flight at the cancel finished
\* with its icon, another one started afterwards and did nothing.
C5_Witness ==
    /\ pcMain = "returned"
    /\ cancel
    /\ \E t \in inFlightAtCancel : fut[t] = "true" /\ IconsOf(t) # {}
    /\ startedAfterCancel # {}

\* C6: every provider call of a task is preceded by a check of the token
\* made after the previous call returned: no task makes two calls in a row.
C6_CheckBeforeEachCall == \A t \in Tasks : sinceCheck[t] <= 1

\* C7: the token has two values, never goes back from cancelled, and a
\* further cancel() leaves it cancelled.
C7_CancelIsTerminal == [](cancel \in BOOLEAN) /\ [][cancel => cancel']_vars

\* The token is set, cancel() was called again on it, both by the GUI and
\* work_item having called it, and the run has since returned.
C7_Witness ==
    /\ cancel /\ cancelledAgain /\ cancelAll
    /\ pcMain = "returned"

\* C8: a failure of a provider never leaves the task as an exception.
C8_NoRaiseOutOfTask == \A t \in Tasks : fut[t] # "raised"

\* C9: a run is not failed because an enabled provider lacks credentials.
C9_MissingKeyNotFatal == result # <<FALSE, "missing_key">>

\* The artwork calls of a task, in the order made.
IsArtCall(c) == c[1] \in Providers
ArtCalls(t) == SelectSeq(calls[t], IsArtCall)

\* C10: in automatic mode the i-th artwork call of a task goes to the i-th
\* provider of the order, no call follows one that returned an image, and
\* the image used (unless it is the fallback icon, used when none returned
\* one) is the one of that call.
C10_FirstProviderWins ==
    \A t \in Tasks :
        LET a == ArtCalls(t) IN
        /\ Len(a) <= Len(provider_order)
        /\ \A i \in 1..Len(a) :
              /\ a[i][1] = provider_order[i]
              /\ a[i][2] => i = Len(a)
        /\ img[t] \notin {NoImg, FallbackIcon} =>
              /\ a # <<>>
              /\ a[Len(a)][2]
              /\ img[t] = <<t, a[Len(a)][1], 1>>
        /\ IconsOf(t) \subseteq {<<t, "icon", img[t]>>}

\* The first provider gave nothing, the second an image, and the icon is
\* written from it.
C10_Witness ==
    \E t \in Tasks :
        /\ Len(ArtCalls(t)) = 2
        /\ ~ArtCalls(t)[1][2]
        /\ <<t, "icon", <<t, provider_order[2], 1>>>> \in written

\* The place of a provider in provider_order (0 when it is not enabled).
ProviderPos(p) ==
    IF InOrder(p) THEN CHOOSE i \in 1..Len(provider_order) : provider_order[i] = p
    ELSE 0

\* C11: the options handed to the selection callback are in provider
\* declaration order and, within a provider, in its result order, however
\* the provider threads interleave.
C11_OptionsInDeclarationOrder ==
    \A t \in Tasks : \A i \in 1..Len(offered[t]) : \A j \in 1..Len(offered[t]) :
        i < j =>
            \/ ProviderPos(offered[t][i][2]) < ProviderPos(offered[t][j][2])
            \/ /\ offered[t][i][2] = offered[t][j][2]
               /\ offered[t][i][3] < offered[t][j][3]

\* C12: with at least one queued task the run always returns one of the two
\* "Completed done/total (errors=N)" summaries, and unless the token was set
\* every queued task was processed and counted, whatever tasks failed or
\* raised.
C12_RunNeverAborts ==
    /\ pcMain = "returned" /\ total > 0 =>
          result \in {<<TRUE, "finished">>, <<FALSE, "cancelled">>}
    /\ pcMain \in {"exit", "returned"} /\ total > 0 /\ ~cancel =>
          /\ done = total
          /\ \A t \in Queued : fut[t] \in {"true", "false", "raised"}
          /\ errors = Cardinality({t \in Queued : fut[t] # "true"})

\* The run finished with its summary after a task raised out of work_item
\* and a later task still wrote its icon.
C12_Witness ==
    /\ pcMain = "returned"
    /\ result = <<TRUE, "finished">>
    /\ \E t \in Queued, u \in Queued :
          /\ t < u
          /\ fut[t] = "raised"
          /\ fut[u] = "true"
          /\ IconsOf(u) # {}
    /\ done = total
    /\ errors >= 1

\* Every enabled provider was called for the task in automatic mode and
\* none returned an image.
NoProviderYielded(t) ==
    /\ ~interactive_mode
    /\ tpc[t] \notin {"loop", "call"}
    /\ Len(ArtCalls(t)) = Len(provider_order)
    /\ \A i \in 1..Len(ArtCalls(t)) : ~ArtCalls(t)[i][2]

\* C13: when no enabled provider yields artwork for a task, the task is
\* composed from the fallback icon if the policy is on and the icon exists,
\* and otherwise fails with a no-art record in the review directory.
C13_FallbackOrRecord ==
    \A t \in Queued :
        NoProviderYielded(t) =>
            IF use_fallback /\ find_fallback_icon # NoImg
            THEN img[t] = FallbackIcon /\ fut[t] # "raised"
            ELSE fut[t] = "false" /\ <<t, "no_art">> \in review

\* C14: a composition error fails its task with a compose-error record in
\* the review directory, and the run goes on to process every other task.
C14_ComposeErrorIsTaskFatal ==
    /\ \A t \in Queued :
          <<t, "compose_error">> \in review => fut[t] = "false"
    /\ \A t \in Queued :
          fut[t] = "false" /\ img[t] # NoImg => <<t, "compose_error">> \in review
    /\ (\E t \in Queued : <<t, "compose_error">> \in review)
          /\ pcMain \in {"exit", "returned"} /\ ~cancel =>
             /\ \A u \in Queued : fut[u] \in {"true", "false", "raised"}
             /\ done = total

\* The composition of the first task failed, the second task still wrote
\* its icon, and the run returned its summary.
C14_Witness ==
    /\ pcMain = "returned"
    /\ result = <<TRUE, "finished">>
    /\ \E t \in Queued, u \in Queued :
          /\ t < u
          /\ <<t, "compose_error">> \in review
          /\ fut[t] = "false"
          /\ fut[u] = "true"
          /\ IconsOf(u) # {}

\* C15: the task list leaves out every title whose output icon exists, and no
\* provider is asked for such a title; a run that follows a run in which every
\* task succeeded queues no task and changes no output file.
C15_RerunIsIdempotent ==
    /\ \A title \in taskCalls : out_path(title) \notin filesAtBuild
    /\ (bpc = "work" /\ prevOk) =>
            /\ tasks = <<>>
            /\ taskCalls = {}
            /\ outfiles = filesAtBuild

C15_Witness ==
    /\ bpc = "work"
    /\ prevOk
    /\ Len(titles) = MaxTasks
    /\ outfiles # {}

\* C16: two distinct tasks of the task list never have the same output path.
C16_DisjointOutputPaths ==
    \A i, j \in DOMAIN tasks : i # j => out_path(tasks[i]) # out_path(tasks[j])

\* C17: an image that an adapter has downloaded is in the cache when the
\* adapter returns it, and a call that begins after the image of its URL was
\* returned makes no network request for it.
C17_DownloadedIsCachedAndReused ==
    \A w \in CacheWorkers :
        /\ (apc[w] = "return" /\ net[w] /\ got[w] # "none") =>
                cache_dir[aprov[w]] # "absent"
        /\ late[w] => ~net[w]

\* C18: a worker that finds a cache entry present reads the complete bytes of
\* the download, never a partially written file.
C18_NeverReadsPartialEntry == \A w \in CacheWorkers : got[w] # "partial"

\* C19: the provider requests for a task are made by its prefetch or by a
\* direct fetch, never by both.
C19_PrefetchOrDirectNotBoth == \A t \in Tasks : queried[t] # Callers

\* The images pick_best_grid may select: those with a URL, not animated
\* unless allowed, and of the requested dimensions when square-only is asked.
Usable(g) ==
    /\ strip(g.url) # <<>>
    /\ allow_animated \/ ~is_animated(strip(g.url))
    /\ square_only => DimString(g) = prefer_dim

UsableGrids == {grids[i] : i \in {j \in DOMAIN grids : Usable(grids[j])}}

\* C20 as stated: the grid returned is a usable one (none only if there is
\* none), and against every other usable grid it has the higher score, or
\* the same score and more upvotes, or the same of both and the LOWER id.
C20_LowerIdBreaksTies ==
    ppc = "done" =>
        /\ (best = <<>>) = (UsableGrids = {})
        /\ best # <<>> =>
            /\ best[1] \in UsableGrids
            /\ \A g \in UsableGrids :
                \/ best[1].score > g.score
                \/ best[1].score = g.score /\ best[1].upvotes > g.upvotes
                \/ best[1].score = g.score /\ best[1].upvotes = g.upvotes
                                           /\ best[1].id <= g.id

\* C20 as amended: the same, with the HIGHER id breaking the tie.
C20_HigherIdBreaksTies ==
    ppc = "done" =>
        /\ (best = <<>>) = (UsableGrids = {})
        /\ best # <<>> =>
            /\ best[1] \in UsableGrids
            /\ \A g \in UsableGrids :
                \/ best[1].score > g.score
                \/ best[1].score = g.score /\ best[1].upvotes > g.upvotes
                \/ best[1].score = g.score /\ best[1].upvotes = g.upvotes
                                           /\ best[1].id >= g.id

C20_Witness ==
    /\ ppc = "done"
    /\ square_only
    /\ Len(grids) = MaxGrids
    /\ \A i \in DOMAIN grids : Usable(grids[i])
    /\ \A i \in DOMAIN grids : grids[i].score = 1 /\ grids[i].upvotes = 0
    /\ grids[1].id = 1
    /\ best # <<>>
    /\ best[1].id = MaxGrids

\* The years of the parenthesised four-digit tags of a text.
ParenYears(s) == {Int4(s, i + 1) : i \in {j \in 1..Len(s) : ParenYearAt(s, j)}}

\* C22 as stated: for a title with a parenthesised four-digit tag, the year
\* extracted is the year of such a tag.
C22_ParenYearIsReturned ==
    (fpc = "done" /\ ParenYears(input) # {}) =>
        \E y \in ParenYears(input) : output = <<y>>

\* C22 as amended: when the first parenthesised four-digit tag of the title
\* is a year from 1970 to 2030, that year is extracted, whatever bare
\* four-digit runs the title has.
C22_ParenYearInRangeIsReturned ==
    \A i \in 1..Len(input) :
        ( /\ fpc = "done"
          /\ ParenYearAt(input, i)
          /\ \A j \in 1..(i - 1) : ~ParenYearAt(input, j)
          /\ Int4(input, i + 1) \in 1970..2030 )
        => output = <<Int4(input, i + 1)>>

C22_Witness ==
    /\ fpc = "done"
    /\ input = <<"1", "9", "9", "2", "(", "1", "9", "8", "5", ")">>
    /\ output = <<1985>>

\* C21: for a query ending in a sequel number, the candidate of the same
\* name gets the exact-match bonus and scores at least as much as the
\* candidate that differs in the sequel digit only, whatever metadata the
\* two carry and whatever the platform hints are.
C21_ExactNameBeatsWrongSequel ==
    fpc = "done" =>
        /\ name_term(strip(str_lower(input.title)), strip(str_lower(input.title))) = 200
        /\ output[1] >= output[2]

\* C21 as amended: the same, for a platform with at most 6 hints.
C21_ExactNameBeatsWrongSequelUpTo6Hints ==
    (fpc = "done" /\ Len(input.hints) <= 6) =>
        /\ name_term(strip(str_lower(input.title)), strip(str_lower(input.title))) = 200
        /\ output[1] >= output[2]

\* The wrong sequel has every advantage the amended claim allows: six hints
\* found in its metadata only, and the year of the title.
C21_Witness ==
    /\ fpc = "done"
    /\ Len(input.hints) = 6
    /\ hints_term(input.hints, str_lower(input.metaB.text)) = 360
    /\ hints_term(input.hints, str_lower(input.metaA.text)) = 0
    /\ year_term(extract_year_from_title(input.title),
                 get_release_year_from_meta(input.metaB)) = 100
    /\ year_term(extract_year_from_title(input.title),
                 get_release_year_from_meta(input.metaA)) = 0 - 50
    /\ extract_subtitle(input.title) # <<>>
    /\ output[1] >= output[2]

\* The detected box of the call, and its part of the image's area in percent
\* (times the image's area).
HasBox == fpc = "done" /\ input.method # "none" /\ input.bbox # <<>>
BoxW == input.bbox[3] - input.bbox[1]
BoxH == input.bbox[4] - input.bbox[2]
BoxArea100 == BoxW * BoxH * 100
ImgArea == input.orig_w * input.orig_h

\* C23 as stated: the image is returned uncropped when the box area is under
\* 15% or over 85% of the image's area, and cropped to the box exactly when
\* the area lies between the two.
C23_CropIffAreaBetweenRatios ==
    (HasBox /\ BoxW > 0 /\ BoxH > 0) =>
        /\ output.cropped =
              (15 * ImgArea <= BoxArea100 /\ BoxArea100 <= 85 * ImgArea)
        /\ output.cropped => output.size = <<BoxW, BoxH>>

\* C23 as amended: the image is returned uncropped when the box area is
\* under 15% of the image's area or when the box is both wider than 85% of
\* the image's width and higher than 85% of its height, and cropped to the
\* box exactly otherwise.
C23_CropIffNotSmallNotSimilar ==
    (HasBox /\ BoxW > 0 /\ BoxH > 0) =>
        /\ output.cropped =
              /\ 15 * ImgArea <= BoxArea100
              /\ ~(BoxW * 100 > 85 * input.orig_w /\ BoxH * 100 > 85 * input.orig_h)
        /\ output.cropped => output.size = <<BoxW, BoxH>>
        /\ ~output.cropped => output.size = <<input.orig_w, input.orig_h>>

\* A box wider and higher than 85% whose area is under 85%: not cropped.
C23_Witness ==
    /\ HasBox
    /\ BoxW * 100 > 85 * input.orig_w
    /\ BoxH * 100 > 85 * input.orig_h
    /\ BoxArea100 <= 85 * ImgArea
    /\ ~output.cropped

\* The zero pixels joined to the centre by steps left, right, up and down
\* through zero pixels.
Adjacent(p, r) ==
    \/ p[1] = r[1] /\ (p[2] = r[2] + 1 \/ r[2] = p[2] + 1)
    \/ p[2] = r[2] /\ (p[1] = r[1] + 1 \/ r[1] = p[1] + 1)

RECURSIVE Grown(_, _)
Grown(region, px) ==
    LET more == {p \in DOMAIN px : px[p] = 0 /\ \E r \in region : Adjacent(p, r)}
    IN  IF more \subseteq region THEN region ELSE Grown(region \cup more, px)

Hole(bitmap) ==
    IF bitmap.px[Centre(bitmap.w, bitmap.h)] # 0 THEN {}
    ELSE Grown({Centre(bitmap.w, bitmap.h)}, bitmap.px)

\* C24: the loop ends (every pixel in the queue is a zero pixel, in the queue
\* once, and each turn makes one of them 255); afterwards the centre is not
\* transparent, and is 255 when the bitmap held only 0 and 255; exactly the
\* zero pixels joined to the centre are 255 now and every other pixel is as
\* it was.
C24_FillsExactlyTheCentreHole ==
    /\ fpc = "loop" =>
        /\ \A i \in DOMAIN output.q : output.px[output.q[i]] = 0
        /\ \A i, j \in DOMAIN output.q : i # j => output.q[i] # output.q[j]
    /\ fpc = "done" =>
        /\ output.px[Centre(input.w, input.h)] # 0
        /\ (\A p \in DOMAIN input.px : input.px[p] \in {0, 255})
                => output.px[Centre(input.w, input.h)] = 255
        /\ \A p \in DOMAIN input.px :
                output.px[p] = IF p \in Hole(input) THEN 255 ELSE input.px[p]

\* A hole of several pixels that does not reach a zero pixel lying diagonally.
C24_Witness ==
    /\ fpc = "done"
    /\ input.w > 1 /\ input.h > 1
    /\ input.w * input.h = MaxPixels
    /\ Cardinality(Hole(input)) >= 3
    /\ \E p \in DOMAIN input.px : input.px[p] = 0 /\ p \notin Hole(input)
    /\ \A p \in Hole(input) : output.px[p] = 255

\* C25: whatever the steps and the span, the centering point returned lies in
\* [0,1] x [0,1] and its score (the squared deviation of the content
\* centroid, counted as the search counts it) is not above the score of the
\* default centering (0.5, 0.5).
C25_NeverWorseThanDefault ==
    fpc = "done" =>
        /\ \A k \in 1..2 : 0 <= output.best_c[k] /\ output.best_c[k] <= output.den
        /\ output.score <= input.measure[<<0, 0>>]

C27_ReturnedListIsFrozen ==
    [][\A t \in Tasks :
          (optsRef[t] # "none" /\ optsRef'[t] = optsRef[t]) =>
              opts'[t][optsRef[t]] = opts[t][optsRef[t]]]_vars

\* prefetch_thread.is_alive(): the thread runs prefetch_artwork until the
\* list it fetched is in prefetch_cache.
is_alive(t) == impl[t]["prefetch"] = "joining"

\* C28: when work_item of task i is about to obtain its options, the thread
\* get_prefetched_or_fetch waits on, if it waits at all, is the prefetch
\* started for task i, never the prefetch of another task.
C28_WaitsOnlyOnOwnPrefetch ==
    \A t \in Tasks :
        (tpc[t] = "fetch" /\ prefetch_thread # 0 /\ is_alive(prefetch_thread)) =>
            prefetch_thread = t

\* C29: a selection that yields None (the answer None, no request_selection
\* callback, a callback that raises) makes work_item return False for that
\* task alone: nothing is composited or written, the token is not set and
\* the loop goes on with the next task; work_item sets the token only on the
\* answer -1.
C29_NoneSkipsTheTitle ==
    [][
       /\ \A t \in Tasks :
            (\/ tpc[t] = "select" /\ tpc'[t] \notin {"select", "blocked"}
             \/ tpc[t] = "blocked" /\ tpc'[t] # "blocked" /\ Head(dialogQueue) = SkipTitle) =>
                /\ cancel' = cancel
                /\ written' = written /\ review' = review
                /\ fut'[t] = "false" /\ tpc'[t] = "ret"
                /\ img'[t] = NoImg
                /\ pcMain' = "icall" /\ iIdx' = t
       /\ \A t \in Tasks :
            (tpc[t] \in {"select", "blocked"} /\ tpc'[t] \notin {"select", "blocked"}
                /\ cancel' # cancel) =>
                tpc[t] = "blocked" /\ Head(dialogQueue) = CANCEL_ALL
       /\ (pcMain = "icall" /\ pcMain' # "icall") =>
            /\ pcMain' = "iloop" /\ iIdx' = iIdx + 1 /\ cancel' = cancel
            /\ written' = written
       /\ (pcMain = "iloop" /\ pcMain' # "iloop" /\ iIdx <= total /\ ~is_cancelled) =>
            pcMain' = "icall"
      ]_vars

\* A title was skipped for want of an answer without the dialog having been
\* shown for it, the token is not set and nothing was written for it.
C29_Witness ==
    \E t \in Tasks :
        /\ <<t, SkipTitle>> \in chosen
        /\ fut[t] = "false"
        /\ dialogFor # t
        /\ ~is_cancelled
        /\ \A f \in written : f[1] # t

\* C30: a task whose work_item returned False (or raised) has written no icon
\* file: its output path does not exist because of it, and the next run
\* queues the task again.
C30_FailedTaskLeftNoIcon ==
    \A t \in Tasks : fut[t] \in {"false", "raised"} => IconsOf(t) = {}

====
